---- MODULE Spec2Model ----
(***************************************************************************)
(* A model of ExtensionManagementService                                   *)
(* (src/vs/platform/extensionManagement/node/extensionManagementService.ts)*)
(*                                                                         *)
(* The service runs on a single JavaScript thread: an action of this model *)
(* is one asynchronous completion (a filesystem call, a registry call)     *)
(* together with the synchronous continuation the code attaches to it.     *)
(* Accesses to the .obsolete index file go through obsoleteFileLimiter.    *)
(***************************************************************************)
EXTENDS Integers, Sequences, FiniteSets, TLC

\* ------------------------------------------------------------------ bounds

\* Concurrent callers of the index in SpecIndex.
NClients == 3
\* Calls the callers of SpecIndex make in one behaviour.
MaxCalls == 3
\* Filesystem / registry failures injected in one behaviour.
MaxFaults == 2
\* Entries of the dependency closure the registry lists for one install.
MaxDeps == 2
\* Calls of install(zipPath) in one behaviour, one after the other.
MaxInstalls == 2
\* Dependencies the installed manifests declare, all together.
MaxEdges == 3
MaxErrors == 3
MaxWatchers == 1
MaxEvents == 2

\* ------------------------------------------------------------- identifiers

Names == {"a", "b", "c", "d"}
Versions == {1, 2}

\* A local identifier is the directory name "<publisher.name>-<version>",
\* kept as the pair it is built from.
getLocalExtensionId(name, version) == <<name, version>>

\* The identifier the i-th caller of SpecIndex marks, unmarks and queries.
ClientId(c) == getLocalExtensionId("a", c)

Clients == 1..NClients

\* ------------------------------------------------------------------- state

VARIABLES
    obsoleteFile,   \* the .obsolete file: [exists, valid, keys]
    lim,            \* obsoleteFileLimiter and the accesses it runs
    expected,       \* history: the mapping after the successful accesses, in completion order
    faults,         \* failures injected so far
    clients,        \* SpecIndex: the callers of setObsolete / unsetObsolete / filterObsolete
    calls,          \* SpecIndex: calls made so far
    maxPending,     \* history: the most accesses that were pending at once
    dirs,           \* the user extensions root: local identifier -> state of its directory
    loc,            \* install(zipPath): the operation's position, events and history
    gal,            \* installFromGallery(extension): the same
    cln,            \* removeObsoleteExtensions(): the same
    un              \* uninstall(extension, force): the same, with the manifests' dependencies

indexVars == <<clients, calls, maxPending>>
installVars == <<dirs, loc, gal, cln, un>>
vars == <<obsoleteFile, lim, expected, faults, clients, calls, maxPending, dirs, loc, gal, cln, un>>

\* ------------------------------------------------------ the .obsolete file

NoFile == [exists |-> FALSE, valid |-> TRUE, keys |-> {}]
CorruptFile == [exists |-> TRUE, valid |-> FALSE, keys |-> {}]

\* JSON.stringify(obsolete) written by pfs.writeFile.
JSONStringify(obsolete) == [exists |-> TRUE, valid |-> TRUE, keys |-> obsolete]

\* readFile (ENOENT reads as '{}') then JSON.parse, {} when it throws.
ReadObsolete(file) ==
    IF ~file.exists THEN {}
    ELSE IF file.valid THEN file.keys ELSE {}

\* The persist step always writes the mapping, even an empty one.
PersistAlwaysWrite(obsolete) == JSONStringify(obsolete)

\* The persist step: an empty mapping removes the file, any other is written.
Persist(obsolete) ==
    IF obsolete = {} THEN NoFile ELSE JSONStringify(obsolete)

\* fn(obsolete) of the four users of withObsoleteExtensions: the mapping it leaves.
ApplyFn(kind, ids, obsolete) ==
    CASE kind = "set" -> obsolete \cup ids
      [] kind = "unset" -> obsolete \ ids
      [] OTHER -> obsolete

\* fn(obsolete)'s result: the marked ones among ids (filterObsolete), the mapping
\* (getObsoleteExtensions).
FnResult(kind, ids, obsolete) ==
    CASE kind = "filter" -> ids \cap obsolete
      [] kind = "get" -> obsolete
      [] OTHER -> {}

\* ------------------------------------------------------------- the limiter

\* A limiter that lets two factories run.
LimiterOfTwo == 1 + 1

\* new Limiter(1): the number of factories the limiter lets run at once.
ObsoleteFileLimiterMax == 1

LocalIds == Names \X Versions

\* One access per caller that can have one pending: <<owner, name, version>>.
AccIds ==
    ({"client"} \X {"a"} \X Clients)
    \cup {<<"loc", "isObsolete", 0>>, <<"gal", "checkForObsolete", 0>>,
          <<"galscan", "system", 0>>, <<"galscan", "user", 0>>, <<"cln", "getObsolete", 0>>}
    \cup ({"galrb", "clnun"} \X Names \X Versions)
    \cup {<<"un", "outdated", 0>>, <<"un", "scan", 0>>}

ClientAcc(c) == <<"client", "a", c>>

IdleAcc == [pc |-> "idle", kind |-> "get", ids |-> {}, obs |-> {}, res |-> {}, limited |-> FALSE]

LimInit == [acc |-> [a \in AccIds |-> IdleAcc], outstanding |-> <<>>, running |-> 0]

\* The factory of withObsoleteExtensions starts: pfs.readFile is issued.
StartAccess(L, a, kind, ids, limited) ==
    [L EXCEPT !.acc[a] = [pc |-> "read", kind |-> kind, ids |-> ids, obs |-> {},
                          res |-> {}, limited |-> limited]]

\* Limiter.queue then consume: the factory runs at once when a slot is free.
LimiterQueue(L, a, kind, ids) ==
    IF L.running < ObsoleteFileLimiterMax /\ L.outstanding = <<>>
    THEN [StartAccess(L, a, kind, ids, TRUE) EXCEPT !.running = @ + 1]
    ELSE [L EXCEPT !.outstanding = Append(@, a),
                   !.acc[a] = [pc |-> "queued", kind |-> kind, ids |-> ids, obs |-> {},
                               res |-> {}, limited |-> TRUE]]

\* The access is started without the limiter.
withObsoleteExtensionsUnqueued(L, a, kind, ids) == StartAccess(L, a, kind, ids, FALSE)

withObsoleteExtensions(L, a, kind, ids) == LimiterQueue(L, a, kind, ids)

\* The slot is freed but the next factory of the queue is not started.
LimiterConsumedKeepsQueue(L, a) ==
    LET L1 == [L EXCEPT !.acc[a].pc = "idle"] IN
    IF ~L.acc[a].limited THEN L1 ELSE [L1 EXCEPT !.running = @ - 1]

\* Limiter.consumed then consume, once access a has settled.
LimiterConsumed(L, a) ==
    LET L1 == [L EXCEPT !.acc[a].pc = "idle"] IN
    IF ~L.acc[a].limited THEN L1
    ELSE IF L1.outstanding = <<>> THEN [L1 EXCEPT !.running = @ - 1]
    ELSE LET b == Head(L1.outstanding) IN
         [L1 EXCEPT !.outstanding = Tail(@), !.acc[b].pc = "read"]

Running(L) == {a \in AccIds : L.acc[a].pc \in {"read", "persist"}}

\* readFile completed: parse, run fn, issue the write or the removal.
ReadFileDone(a) ==
    /\ lim.acc[a].pc = "read"
    /\ LET obsolete == ApplyFn(lim.acc[a].kind, lim.acc[a].ids, ReadObsolete(obsoleteFile)) IN
       lim' = [lim EXCEPT !.acc[a].pc = "persist",
                          !.acc[a].obs = obsolete,
                          !.acc[a].res = FnResult(lim.acc[a].kind, lim.acc[a].ids, obsolete)]
    /\ UNCHANGED <<obsoleteFile, expected, faults, indexVars, installVars>>

\* An access that read content it cannot parse rejects and leaves the file.
SettlementsParseThrows(a) ==
    LET A == lim.acc[a] IN
    IF A.pc = "persist" /\ obsoleteFile.exists /\ ~obsoleteFile.valid
    THEN {[ok |-> FALSE, res |-> {}, file |-> obsoleteFile, fault |-> 0]}
    ELSE (IF A.pc = "persist"
          THEN {[ok |-> TRUE, res |-> A.res, file |-> Persist(A.obs), fault |-> 0]}
          ELSE {})
         \cup
         (IF A.pc \in {"read", "persist"} /\ faults < MaxFaults
          THEN {[ok |-> FALSE, res |-> {}, file |-> obsoleteFile, fault |-> 1]}
          ELSE {})

\* The ways access a can settle now: readFile fails other than with ENOENT, or the
\* write / removal completes or fails.
Settlements(a) ==
    LET A == lim.acc[a] IN
    (IF A.pc = "persist"
     THEN {[ok |-> TRUE, res |-> A.res, file |-> Persist(A.obs), fault |-> 0]}
     ELSE {})
    \cup
    (IF A.pc \in {"read", "persist"} /\ faults < MaxFaults
     THEN {[ok |-> FALSE, res |-> {}, file |-> obsoleteFile, fault |-> 1]}
     ELSE {})

\* What a settlement does to the file and to the history.
Settle(a, s) ==
    /\ obsoleteFile' = s.file
    /\ faults' = faults + s.fault
    /\ expected' = IF s.ok THEN ApplyFn(lim.acc[a].kind, lim.acc[a].ids, expected)
                   ELSE expected

\* ------------------------------------------------- SpecIndex: the callers

ClientInit == [c \in Clients |-> [pc |-> "idle", kind |-> "none", ok |-> FALSE]]

Pending(L) == {a \in AccIds : L.acc[a].pc # "idle"}

Call(c, kind) ==
    /\ clients[c].pc = "idle"
    /\ calls < MaxCalls
    /\ calls' = calls + 1
    /\ lim' = withObsoleteExtensions(lim, ClientAcc(c), kind, {ClientId(c)})
    /\ clients' = [clients EXCEPT ![c] = [pc |-> "wait", kind |-> kind, ok |-> FALSE]]
    /\ maxPending' = IF Cardinality(Pending(lim')) > maxPending
                     THEN Cardinality(Pending(lim')) ELSE maxPending
    /\ UNCHANGED <<obsoleteFile, expected, faults, installVars>>

setObsolete(c) == Call(c, "set")

unsetObsolete(c) == Call(c, "unset")

filterObsolete(c) == Call(c, "filter")

\* The access of caller c settles and its promise resolves or rejects.
ClientSettled(c) ==
    /\ clients[c].pc = "wait"
    /\ \E s \in Settlements(ClientAcc(c)) :
        /\ Settle(ClientAcc(c), s)
        /\ lim' = LimiterConsumed(lim, ClientAcc(c))
        /\ clients' = [clients EXCEPT ![c].pc = "idle", ![c].ok = s.ok]
    /\ UNCHANGED <<calls, maxPending, installVars>>

\* --------------------------------------------------- extension directories

\* A directory of the user root: absent, partial (no readable manifest: a failed
\* extraction), extracted (the package's manifest) or installed (the manifest
\* with __metadata merged in).
DirStates == {"absent", "partial", "extracted", "installed"}
Readable == {"extracted", "installed"}

InstallPcs == {"rimraf", "extract", "readManifest", "readdir", "readFile", "writeFile"}
MutatingPcs == {"rimraf", "extract", "writeFile"}

\* installExtension's chain of filesystem calls.
NextInstallPc(pc) ==
    CASE pc = "rimraf" -> "extract"
      [] pc = "extract" -> "readManifest"
      [] pc = "readManifest" -> "readdir"
      [] pc = "readdir" -> "readFile"
      [] pc = "readFile" -> "writeFile"
      [] OTHER -> "done"

\* What a filesystem call of installExtension / pfs.rimraf does to a directory in
\* state d: it completes, fails because the directory is not there to read, or
\* fails by an injected fault (a failed extraction may leave a partial directory).
FsOutcomes(pc, d) ==
    (CASE pc = "rimraf" -> {[ok |-> TRUE, dir |-> "absent", fault |-> 0]}
       [] pc = "extract" -> {[ok |-> TRUE, dir |-> "extracted", fault |-> 0]}
       [] pc = "writeFile" ->
            IF d = "absent" THEN {[ok |-> FALSE, dir |-> d, fault |-> 0]}
            ELSE {[ok |-> TRUE, dir |-> "installed", fault |-> 0]}
       [] OTHER ->
            IF d \in Readable THEN {[ok |-> TRUE, dir |-> d, fault |-> 0]}
            ELSE {[ok |-> FALSE, dir |-> d, fault |-> 0]})
    \cup
    (IF faults < MaxFaults
     THEN {[ok |-> FALSE, dir |-> d2, fault |-> 1] :
              d2 \in (IF pc = "extract" THEN {d, "partial"} ELSE {d})}
     ELSE {})

Event(kind, id, error, net) == [kind |-> kind, id |-> id, error |-> error, net |-> net]

\* ------------------------------------------------------ install(zipPath)

LocAcc == <<"loc", "isObsolete", 0>>

\* The packages install is called with: a manifest naming a.1, or no valid manifest.
Zips == [name : {"a"}, version : {1}, valid : BOOLEAN]

getLocalExtensionIdFromManifest(manifest) == getLocalExtensionId(manifest.name, manifest.version)

\* events, fs: the events fired and the directories written by the current call;
\* saw: what its obsolete check read; prev: how the call before it ended.
LocIdle == [pc |-> "idle", zip |-> [name |-> "a", version |-> 1, valid |-> TRUE],
            id |-> <<"a", 1>>, events |-> <<>>, fs |-> {}, result |-> "none",
            saw |-> "none", calls |-> 0, prev |-> "none"]

\* install: validate(zipPath) is issued.
install(zip) ==
    /\ loc.pc \in {"idle", "resolved", "rejected"}
    /\ loc.calls < MaxInstalls
    /\ loc' = [LocIdle EXCEPT !.pc = "validate", !.zip = zip, !.calls = loc.calls + 1,
                              !.prev = loc.result]
    /\ UNCHANGED <<obsoleteFile, lim, expected, faults, indexVars, dirs, gal, cln, un>>

\* validate completed: a rejection, or the identifier and isObsolete(id).
LocValidateDone ==
    /\ loc.pc = "validate"
    /\ IF ~loc.zip.valid
       THEN /\ loc' = [loc EXCEPT !.pc = "rejected", !.result = "InvalidManifest"]
            /\ lim' = lim
       ELSE /\ loc' = [loc EXCEPT !.pc = "isObsolete",
                                  !.id = getLocalExtensionIdFromManifest(loc.zip)]
            /\ lim' = withObsoleteExtensions(lim, LocAcc, "filter",
                                             {getLocalExtensionIdFromManifest(loc.zip)})
    /\ UNCHANGED <<obsoleteFile, expected, faults, indexVars, dirs, gal, cln, un>>

\* The identifier is obsolete: the rejection, with no event.
LocObsoleteRejected(l) == [l EXCEPT !.pc = "rejected", !.result = "RestartRequired"]

\* installExtension starts without the install event.
LocBeginInstallSilent(l) == [l EXCEPT !.pc = "rimraf"]

\* The identifier is not obsolete: the install event, then installExtension.
LocBeginInstall(l) ==
    [l EXCEPT !.pc = "rimraf", !.events = Append(@, Event("install", l.id, "none", {}))]

\* The obsolete check is skipped.
LocAfterIsObsoleteUnchecked(l, isObsolete) == LocBeginInstall(l)

\* install's continuation of isObsolete(id).
LocAfterIsObsolete(l, isObsolete) ==
    IF isObsolete THEN LocObsoleteRejected(l) ELSE LocBeginInstall(l)

\* isObsolete(id) settled.
LocIsObsoleteSettled ==
    /\ loc.pc = "isObsolete"
    /\ \E s \in Settlements(LocAcc) :
        /\ Settle(LocAcc, s)
        /\ lim' = LimiterConsumed(lim, LocAcc)
        /\ loc' = IF ~s.ok
                  THEN [loc EXCEPT !.pc = "rejected", !.result = "IndexError", !.saw = "failed"]
                  ELSE LocAfterIsObsolete(
                          [loc EXCEPT !.saw = IF loc.id \in s.res THEN "marked" ELSE "unmarked"],
                          Cardinality(s.res) = 1)
    /\ UNCHANGED <<indexVars, dirs, gal, cln, un>>

\* A filesystem call of installExtension completed.
LocInstallExtensionStep ==
    /\ loc.pc \in InstallPcs
    /\ \E o \in FsOutcomes(loc.pc, dirs[loc.id]) :
        /\ dirs' = [dirs EXCEPT ![loc.id] = o.dir]
        /\ faults' = faults + o.fault
        /\ LET l1 == [loc EXCEPT !.fs = IF loc.pc \in MutatingPcs
                                        THEN @ \cup {<<loc.pc, loc.id>>} ELSE @] IN
           loc' = IF ~o.ok
                  THEN [l1 EXCEPT !.pc = "rejected", !.result = "LocalError",
                                  !.events = Append(@, Event("didInstall", loc.id, "error", {}))]
                  ELSE IF loc.pc = "writeFile"
                  THEN [l1 EXCEPT !.pc = "resolved", !.result = "ok",
                                  !.events = Append(@, Event("didInstall", loc.id, "none", {}))]
                  ELSE [l1 EXCEPT !.pc = NextInstallPc(loc.pc)]
    /\ UNCHANGED <<obsoleteFile, lim, expected, indexVars, gal, cln, un>>

\* ------------------------------------------- removeObsoleteExtensions()

ClnGetAcc == <<"cln", "getObsolete", 0>>
ClnAcc(i) == <<"clnun", i[1], i[2]>>

ClnIdle == [pc |-> "idle", mem |-> [i \in LocalIds |-> "none"]]

\* TPromise.join over the removals: settled once none is pending.
ClnJoined(mem) ==
    IF \E i \in LocalIds : mem[i] \in {"rimraf", "unset"} THEN "remove"
    ELSE IF \E i \in LocalIds : mem[i] \in {"failed", "unsetFailed"} THEN "failed"
    ELSE "done"

removeObsoleteExtensions ==
    /\ cln.pc = "idle"
    /\ cln' = [cln EXCEPT !.pc = "getObsolete"]
    /\ lim' = withObsoleteExtensions(lim, ClnGetAcc, "get", {})
    /\ UNCHANGED <<obsoleteFile, expected, faults, indexVars, dirs, loc, gal, un>>

\* getObsoleteExtensions settled: removeExtensions(Object.keys(obsolete)).
ClnGetSettled ==
    /\ cln.pc = "getObsolete"
    /\ \E s \in Settlements(ClnGetAcc) :
        /\ Settle(ClnGetAcc, s)
        /\ lim' = LimiterConsumed(lim, ClnGetAcc)
        /\ cln' = IF ~s.ok THEN [cln EXCEPT !.pc = "failed"]
                  ELSE LET mem == [i \in LocalIds |-> IF i \in s.res THEN "rimraf" ELSE "none"] IN
                       [pc |-> ClnJoined(mem), mem |-> mem]
    /\ UNCHANGED <<indexVars, dirs, loc, gal, un>>

\* The entry is deleted whether or not the rimraf succeeded.
ClnRimrafDoneAlwaysUnsets(i) ==
    /\ cln.pc = "remove"
    /\ cln.mem[i] = "rimraf"
    /\ \E o \in FsOutcomes("rimraf", dirs[i]) :
        /\ dirs' = [dirs EXCEPT ![i] = o.dir]
        /\ faults' = faults + o.fault
        /\ lim' = withObsoleteExtensions(lim, ClnAcc(i), "unset", {i})
        /\ cln' = [cln EXCEPT !.mem[i] = "unset"]
    /\ UNCHANGED <<obsoleteFile, expected, indexVars, loc, gal, un>>

\* removeExtensions: rimraf of one directory completed; then the entry is deleted.
ClnRimrafDone(i) ==
    /\ cln.pc = "remove"
    /\ cln.mem[i] = "rimraf"
    /\ \E o \in FsOutcomes("rimraf", dirs[i]) :
        /\ dirs' = [dirs EXCEPT ![i] = o.dir]
        /\ faults' = faults + o.fault
        /\ IF o.ok
           THEN /\ lim' = withObsoleteExtensions(lim, ClnAcc(i), "unset", {i})
                /\ cln' = [cln EXCEPT !.mem[i] = "unset"]
           ELSE /\ lim' = lim
                /\ LET mem == [cln.mem EXCEPT ![i] = "failed"] IN
                   cln' = [pc |-> ClnJoined(mem), mem |-> mem]
    /\ UNCHANGED <<obsoleteFile, expected, indexVars, loc, gal, un>>

ClnUnsetSettled(i) ==
    /\ cln.pc = "remove"
    /\ cln.mem[i] = "unset"
    /\ \E s \in Settlements(ClnAcc(i)) :
        /\ Settle(ClnAcc(i), s)
        /\ lim' = LimiterConsumed(lim, ClnAcc(i))
        /\ LET mem == [cln.mem EXCEPT ![i] = IF s.ok THEN "done" ELSE "unsetFailed"] IN
           cln' = [pc |-> ClnJoined(mem), mem |-> mem]
    /\ UNCHANGED <<indexVars, dirs, loc, gal, un>>

\* ------------------------------------------- installFromGallery(extension)

\* An IGalleryExtension: its uuid (one per publisher.name) and version.
GalleryExtension(name, version) == [name |-> name, version |-> version]

getLocalExtensionIdFromGallery(extension, version) == getLocalExtensionId(extension.name, version)

LocalIdOf(e) == getLocalExtensionIdFromGallery(e, e.version)

\* What the registry can list as the dependency closure: entries of Catalog, the
\* target itself among them, at most MaxDeps of them.
Catalog == <<GalleryExtension("a", 1), GalleryExtension("b", 1), GalleryExtension("c", 1)>>

DepLists ==
    {SelectSeq(Catalog, LAMBDA e : \E n \in S : Catalog[n] = e) :
        S \in {T \in SUBSET (1..Len(Catalog)) : Cardinality(T) <= MaxDeps}}

Requested == GalleryExtension("a", 1)

MaxBatch == MaxDeps + 1
Members == 1..MaxBatch

\* The built-in extensions root, which no operation writes.
SystemExtensions == {<<"system", 0>>}

GalCheckAcc == <<"gal", "checkForObsolete", 0>>
GalScanAcc(root) == <<"galscan", root, 0>>
GalRbAcc(i) == <<"galrb", i[1], i[2]>>
Roots == {"system", "user"}

NoScan == [pc |-> "none", obsolete |-> {}, result |-> {}]

GalIdle == [pc |-> "idle", extension |-> Requested, compat |-> Requested, allDeps |-> <<>>,
            toInstall |-> <<>>, scan |-> [r \in Roots |-> NoScan],
            mem |-> [k \in Members |-> [pc |-> "none", installed |-> FALSE]],
            found |-> {}, events |-> <<>>, net |-> {}, fs |-> {}, result |-> "none",
            checked |-> FALSE, seen |-> {}, faultsAtJoin |-> 0]

\* onInstallExtensions: one install event per extension, in order.
onInstallExtensions(g, extensions) ==
    [g EXCEPT !.events = @ \o [k \in 1..Len(extensions) |->
                                  Event("install", LocalIdOf(extensions[k]), "none", g.net)]]

\* onDidInstallExtensions: one didInstall event per extension, in order.
onDidInstallExtensions(g, extensions, errorCode) ==
    [g EXCEPT !.events = @ \o [k \in 1..Len(extensions) |->
                                  Event("didInstall", LocalIdOf(extensions[k]), errorCode, g.net)]]

\* The rejection without the events.
GalRejectSilent(g, extensions, errorCode) ==
    [g EXCEPT !.pc = "rejected", !.result = errorCode]

\* An error handler of installFromGallery: the events, then the rejection.
GalReject(g, extensions, errorCode) ==
    [onDidInstallExtensions(g, extensions, errorCode) EXCEPT !.pc = "rejected", !.result = errorCode]

\* prepareAndCollectExtensionsToInstall: the target's install event, then
\* galleryService.loadCompatibleVersion is issued.
installFromGallery ==
    /\ gal.pc = "idle"
    /\ gal' = [onInstallExtensions(gal, <<gal.extension>>) EXCEPT
                  !.pc = "loadCompatibleVersion", !.net = @ \cup {"loadCompatibleVersion"}]
    /\ UNCHANGED <<obsoleteFile, lim, expected, faults, indexVars, dirs, loc, cln, un>>

\* loadCompatibleVersion settled; galleryService.getAllDependencies is issued.
GalLoadCompatibleVersionDone ==
    /\ gal.pc = "loadCompatibleVersion"
    /\ \/ /\ \E v \in Versions :
                gal' = [gal EXCEPT !.pc = "getAllDependencies",
                                   !.compat = GalleryExtension(gal.extension.name, v),
                                   !.net = @ \cup {"getAllDependencies"}]
          /\ faults' = faults
       \/ /\ faults < MaxFaults
          /\ faults' = faults + 1
          /\ gal' = GalReject(gal, <<gal.extension>>, "GALLERY")
    /\ UNCHANGED <<obsoleteFile, lim, expected, indexVars, dirs, loc, cln, un>>

\* getInstalled: scanSystemExtensions and scanUserExtensions each read the index.
getInstalled(L) ==
    withObsoleteExtensions(withObsoleteExtensions(L, GalScanAcc("system"), "get", {}),
                           GalScanAcc("user"), "get", {})

StartScans(g) == [g EXCEPT !.scan = [r \in Roots |-> [NoScan EXCEPT !.pc = "index"]]]

\* getAllDependencies settled; filterDependenciesToInstall calls getInstalled.
GalGetAllDependenciesDone ==
    /\ gal.pc = "getAllDependencies"
    /\ \/ /\ \E deps \in DepLists :
                gal' = [StartScans(gal) EXCEPT !.pc = "getInstalled", !.allDeps = deps]
          /\ lim' = getInstalled(lim)
          /\ faults' = faults
       \/ /\ faults < MaxFaults
          /\ faults' = faults + 1
          /\ lim' = lim
          /\ gal' = GalReject(gal, <<gal.extension>>, "GALLERY")
    /\ UNCHANGED <<obsoleteFile, expected, indexVars, dirs, loc, cln, un>>

\* Every version of an identifier is returned.
HighestVersionsUngrouped(S) == S

\* scanUserExtensions: per publisher.name, the highest version (semver.rcompare).
HighestVersions(S) == {i \in S : \A j \in S : j[1] = i[1] => j[2] <= i[2]}

\* What the two scans of getInstalled returned.
Installed(scan) == scan["system"].result \cup HighestVersions(scan["user"].result)

\* The installed dependencies are kept.
filterDependenciesKeepInstalled(extension, dependencies, local) ==
    SelectSeq(dependencies, LAMBDA d : extension.name # d.name)

\* The self-reference is kept.
filterDependenciesKeepSelf(extension, dependencies, local) ==
    SelectSeq(dependencies, LAMBDA d : LocalIdOf(d) \notin local)

filterDependenciesToInstall(extension, dependencies, local) ==
    SelectSeq(dependencies, LAMBDA d : extension.name # d.name /\ LocalIdOf(d) \notin local)

\* collectExtensionsToInstall: [extensionToInstall, ...dependenciesToInstall].
collectExtensionsToInstall(g) ==
    <<g.compat>> \o filterDependenciesToInstall(g.extension, g.allDeps, Installed(g.scan))

BatchIds(g) == {LocalIdOf(g.toInstall[k]) : k \in 1..Len(g.toInstall)}

\* filterOutUninstalled: the installed extensions that are members of the batch.
filterOutUninstalled(g) == {i \in Installed(g.scan) : i \in BatchIds(g)}

RECURSIVE SetObsoleteAll(_, _, _)
\* rollback: uninstallExtension of each installed member starts with setObsolete.
SetObsoleteAll(L, g, k) ==
    IF k > Len(g.toInstall) THEN L
    ELSE LET i == LocalIdOf(g.toInstall[k]) IN
         SetObsoleteAll(IF i \in g.found THEN withObsoleteExtensions(L, GalRbAcc(i), "set", {i})
                        ELSE L, g, k + 1)

\* A failure of the rollback is what installFromGallery rejects with.
GalRollbackDonePropagating(g) ==
    IF \/ \E k \in 1..Len(g.toInstall) : g.mem[k].pc = "rb_failed"
       \/ \E r \in Roots : g.scan[r].pc = "failed"
    THEN [g EXCEPT !.pc = "rejected", !.result = "ROLLBACK"]
    ELSE GalReject(g, g.toInstall, "LOCAL")

\* rollback settled (its errors are dropped): the batch is reported failed.
GalRollbackDone(g) == GalReject(g, g.toInstall, "LOCAL")

\* The continuation of getInstalled once both scans settled, as [gal, lim]:
\* in prepareAndCollectExtensionsToInstall the batch is computed and checked
\* for obsolete identifiers; in rollback the installed members are uninstalled.
GalAfterScans(g, L) ==
    IF \E r \in Roots : g.scan[r].pc \in {"index", "readdir"}
    THEN [gal |-> g, lim |-> L]
    ELSE IF g.pc = "getInstalled"
    THEN IF \E r \in Roots : g.scan[r].pc = "failed"
         THEN [gal |-> GalReject(g, <<g.extension>>, "GALLERY"), lim |-> L]
         ELSE LET g1 == [g EXCEPT !.toInstall = collectExtensionsToInstall(g),
                                  !.pc = "checkForObsolete"] IN
              [gal |-> g1,
               lim |-> withObsoleteExtensions(L, GalCheckAcc, "filter", BatchIds(g1))]
    ELSE IF \E r \in Roots : g.scan[r].pc = "failed"
         THEN [gal |-> GalRollbackDone(g), lim |-> L]
         ELSE LET g1 == [g EXCEPT !.found = filterOutUninstalled(g)] IN
              IF g1.found = {} THEN [gal |-> GalRollbackDone(g1), lim |-> L]
              ELSE [gal |-> [g1 EXCEPT !.pc = "rollback",
                                       !.mem = [k \in Members |->
                                           IF k <= Len(g.toInstall) /\ LocalIdOf(g.toInstall[k]) \in g1.found
                                           THEN [@[k] EXCEPT !.pc = "rb_set"] ELSE @[k]]],
                    lim |-> SetObsoleteAll(L, g1, 1)]

\* scanExtensionFolders: getObsoleteExtensions of one scan settled.
GalScanIndexSettled(r) ==
    /\ gal.pc \in {"getInstalled", "rollbackScan"}
    /\ gal.scan[r].pc = "index"
    /\ \E s \in Settlements(GalScanAcc(r)) :
        /\ Settle(GalScanAcc(r), s)
        /\ LET g1 == [gal EXCEPT !.scan[r] = IF s.ok
                                             THEN [pc |-> "readdir", obsolete |-> s.res, result |-> {}]
                                             ELSE [NoScan EXCEPT !.pc = "failed"]]
               n == GalAfterScans(g1, LimiterConsumed(lim, GalScanAcc(r))) IN
           /\ gal' = n.gal
           /\ lim' = n.lim
    /\ UNCHANGED <<indexVars, dirs, loc, cln, un>>

\* The obsolete folders are scanned like the others.
ScanFoldersWithObsolete(r, obsolete) ==
    IF r = "system" THEN SystemExtensions
    ELSE {i \in LocalIds : dirs[i] \in Readable}

\* The folders of a root that are not obsolete and whose manifest can be read.
ScanFolders(r, obsolete) ==
    IF r = "system" THEN SystemExtensions \ obsolete
    ELSE {i \in LocalIds : dirs[i] \in Readable /\ i \notin obsolete}

\* scanExtensions: the root and its folders were read. The root's readdir may
\* fail (the scan fails), a folder's read may fail (the folder is left out).
GalScanReaddirDone(r) ==
    /\ gal.pc \in {"getInstalled", "rollbackScan"}
    /\ gal.scan[r].pc = "readdir"
    /\ \E o \in {[pc |-> "done", result |-> ScanFolders(r, gal.scan[r].obsolete), fault |-> 0]}
            \cup (IF faults < MaxFaults
                  THEN {[pc |-> "failed", result |-> {}, fault |-> 1]}
                       \cup {[pc |-> "done", result |-> ScanFolders(r, gal.scan[r].obsolete) \ {x},
                              fault |-> 1] : x \in ScanFolders(r, gal.scan[r].obsolete)}
                  ELSE {}) :
        /\ faults' = faults + o.fault
        /\ LET g1 == [gal EXCEPT !.scan[r].pc = o.pc, !.scan[r].result = o.result]
               n == GalAfterScans(g1, lim) IN
           /\ gal' = n.gal
           /\ lim' = n.lim
    /\ UNCHANGED <<obsoleteFile, expected, indexVars, dirs, loc, cln, un>>

\* The members of the batch, by position in extensionsToInstall.
Batch(g) == 1..Len(g.toInstall)

\* The downloads are issued before the dependencies' install events.
GalBeginDownloadsEventsLate(g) ==
    LET g0 == [g EXCEPT !.pc = "download", !.net = @ \cup {"download"},
                        !.mem = [k \in Members |-> IF k \in 1..Len(g.toInstall)
                                                   THEN [@[k] EXCEPT !.pc = "download"]
                                                   ELSE @[k]]] IN
    IF Len(g.toInstall) > 1 THEN onInstallExtensions(g0, Tail(g.toInstall)) ELSE g0

\* checkForObsolete passed: the dependencies' install events, then
\* downloadAndInstallExtensions issues every download.
GalBeginDownloads(g) ==
    LET g1 == IF Len(g.toInstall) > 1 THEN onInstallExtensions(g, Tail(g.toInstall)) ELSE g IN
    [g1 EXCEPT !.pc = "download", !.net = @ \cup {"download"},
               !.mem = [k \in Members |-> IF k \in Batch(g) THEN [@[k] EXCEPT !.pc = "download"]
                                          ELSE @[k]]]

\* The obsolete identifiers are ignored.
GalAfterCheckForObsoleteIgnored(g, obsolete) == GalBeginDownloads(g)

\* The failure is reported for every entry of the batch.
GalAfterCheckForObsoleteAll(g, obsolete) ==
    IF obsolete # {} THEN GalReject(g, g.toInstall, "OBSOLETE")
    ELSE GalBeginDownloads(g)

\* prepareAndCollectExtensionsToInstall's continuation of checkForObsolete.
GalAfterCheckForObsolete(g, obsolete) ==
    IF obsolete # {} THEN GalReject(g, <<g.extension>>, "OBSOLETE")
    ELSE GalBeginDownloads(g)

\* checkForObsolete settled.
GalCheckForObsoleteSettled ==
    /\ gal.pc = "checkForObsolete"
    /\ \E s \in Settlements(GalCheckAcc) :
        /\ Settle(GalCheckAcc, s)
        /\ lim' = LimiterConsumed(lim, GalCheckAcc)
        /\ gal' = IF ~s.ok THEN GalReject(gal, <<gal.extension>>, "OBSOLETE")
                  ELSE GalAfterCheckForObsolete([gal EXCEPT !.checked = TRUE, !.seen = s.res], s.res)
    /\ UNCHANGED <<indexVars, dirs, loc, cln, un>>

\* The installs start as soon as one package is ready.
GalAfterDownloadsNoJoin(g) ==
    IF \E k \in Batch(g) : g.mem[k].pc = "ready"
    THEN [g EXCEPT !.pc = "install",
                   !.mem = [k \in Members |-> IF k \in Batch(g) /\ @[k].pc = "ready"
                                              THEN [@[k] EXCEPT !.pc = "rimraf"] ELSE @[k]]]
    ELSE IF \E k \in Batch(g) : g.mem[k].pc \in {"download", "validate"} THEN g
    ELSE GalReject(g, g.toInstall, "GALLERY")

\* The continuation of the join over downloadInstallableExtension: a failed
\* download fails the batch, else installExtension starts for every member.
GalAfterDownloads(g) ==
    IF \E k \in Batch(g) : g.mem[k].pc \in {"download", "validate"} THEN g
    ELSE IF \E k \in Batch(g) : g.mem[k].pc = "dlfailed"
    THEN GalReject(g, g.toInstall, "GALLERY")
    ELSE [g EXCEPT !.pc = "install",
                   !.mem = [k \in Members |-> IF k \in Batch(g) THEN [@[k] EXCEPT !.pc = "rimraf"]
                                              ELSE @[k]]]

\* downloadInstallableExtension: galleryService.download, then validate(zipPath).
GalDownloadStep(k) ==
    /\ gal.pc = "download"
    /\ k \in Batch(gal)
    /\ gal.mem[k].pc \in {"download", "validate"}
    /\ \/ /\ faults' = faults
          /\ gal' = GalAfterDownloads([gal EXCEPT !.mem[k].pc =
                        IF gal.mem[k].pc = "download" THEN "validate" ELSE "ready"])
       \/ /\ faults < MaxFaults
          /\ faults' = faults + 1
          /\ gal' = GalAfterDownloads([gal EXCEPT !.mem[k].pc = "dlfailed"])
    /\ UNCHANGED <<obsoleteFile, lim, expected, indexVars, dirs, loc, cln, un>>

\* All installs settled with no failure: the batch is reported installed.
GalResolve(g) == [onDidInstallExtensions(g, g.toInstall, "none") EXCEPT
                     !.pc = "resolved", !.result = "ok"]

\* The failed batch is reported without a rollback.
GalAfterInstallsNoRollback(g, L) ==
    IF \E k \in Batch(g) : g.mem[k].pc \in InstallPcs THEN [gal |-> g, lim |-> L]
    ELSE IF \E k \in Batch(g) : g.mem[k].pc = "failed"
    THEN [gal |-> GalRollbackDone(g), lim |-> L]
    ELSE [gal |-> GalResolve(g), lim |-> L]

\* The continuation of the join over installExtension, as [gal, lim]: a failure
\* starts rollback (filterOutUninstalled calls getInstalled).
GalAfterInstalls(g, L) ==
    IF \E k \in Batch(g) : g.mem[k].pc \in InstallPcs THEN [gal |-> g, lim |-> L]
    ELSE IF \E k \in Batch(g) : g.mem[k].pc = "failed"
    THEN [gal |-> [StartScans(g) EXCEPT !.pc = "rollbackScan"], lim |-> getInstalled(L)]
    ELSE [gal |-> GalResolve(g), lim |-> L]

\* A filesystem call of a member's installExtension completed.
GalInstallExtensionStep(k) ==
    /\ gal.pc = "install"
    /\ k \in Batch(gal)
    /\ gal.mem[k].pc \in InstallPcs
    /\ LET i == LocalIdOf(gal.toInstall[k]) IN
       \E o \in FsOutcomes(gal.mem[k].pc, dirs[i]) :
        /\ dirs' = [dirs EXCEPT ![i] = o.dir]
        /\ faults' = faults + o.fault
        /\ LET g1 == [gal EXCEPT !.faultsAtJoin = faults + o.fault,
                                 !.fs = IF gal.mem[k].pc \in MutatingPcs
                                        THEN @ \cup {<<gal.mem[k].pc, i>>} ELSE @,
                                 !.mem[k] = IF ~o.ok THEN [pc |-> "failed", installed |-> FALSE]
                                            ELSE IF gal.mem[k].pc = "writeFile"
                                            THEN [pc |-> "done", installed |-> TRUE]
                                            ELSE [@ EXCEPT !.pc = NextInstallPc(gal.mem[k].pc)]]
               n == GalAfterInstalls(g1, lim) IN
           /\ gal' = n.gal
           /\ lim' = n.lim
    /\ UNCHANGED <<obsoleteFile, expected, indexVars, loc, cln, un>>

\* The continuation of the join over the rollback's uninstallExtension calls.
GalAfterRollback(g) ==
    IF \E k \in Batch(g) : g.mem[k].pc \in {"rb_set", "rb_rimraf", "rb_unset"} THEN g
    ELSE GalRollbackDone(g)

\* uninstallExtension of a member: setObsolete settled, pfs.rimraf is issued.
GalRbSetSettled(k) ==
    /\ gal.pc = "rollback"
    /\ k \in Batch(gal)
    /\ gal.mem[k].pc = "rb_set"
    /\ \E s \in Settlements(GalRbAcc(LocalIdOf(gal.toInstall[k]))) :
        /\ Settle(GalRbAcc(LocalIdOf(gal.toInstall[k])), s)
        /\ lim' = LimiterConsumed(lim, GalRbAcc(LocalIdOf(gal.toInstall[k])))
        /\ gal' = GalAfterRollback([gal EXCEPT !.mem[k].pc = IF s.ok THEN "rb_rimraf" ELSE "rb_failed"])
    /\ UNCHANGED <<indexVars, dirs, loc, cln, un>>

\* uninstallExtension of a member: rimraf completed, unsetObsolete is queued.
GalRbRimrafDone(k) ==
    /\ gal.pc = "rollback"
    /\ k \in Batch(gal)
    /\ gal.mem[k].pc = "rb_rimraf"
    /\ LET i == LocalIdOf(gal.toInstall[k]) IN
       \E o \in FsOutcomes("rimraf", dirs[i]) :
        /\ dirs' = [dirs EXCEPT ![i] = o.dir]
        /\ faults' = faults + o.fault
        /\ lim' = IF o.ok THEN withObsoleteExtensions(lim, GalRbAcc(i), "unset", {i}) ELSE lim
        /\ gal' = GalAfterRollback([gal EXCEPT !.fs = @ \cup {<<"rimraf", i>>}
                                                      \cup (IF o.ok THEN {} ELSE {<<"rimrafFailed", i>>}),
                                               !.mem[k].pc = IF o.ok THEN "rb_unset" ELSE "rb_failed"])
    /\ UNCHANGED <<obsoleteFile, expected, indexVars, loc, cln, un>>

\* uninstallExtension of a member: unsetObsolete settled.
GalRbUnsetSettled(k) ==
    /\ gal.pc = "rollback"
    /\ k \in Batch(gal)
    /\ gal.mem[k].pc = "rb_unset"
    /\ \E s \in Settlements(GalRbAcc(LocalIdOf(gal.toInstall[k]))) :
        /\ Settle(GalRbAcc(LocalIdOf(gal.toInstall[k])), s)
        /\ lim' = LimiterConsumed(lim, GalRbAcc(LocalIdOf(gal.toInstall[k])))
        /\ gal' = GalAfterRollback([gal EXCEPT !.mem[k].pc = IF s.ok THEN "rb_done" ELSE "rb_failed"])
    /\ UNCHANGED <<indexVars, dirs, loc, cln, un>>

\* --------------------------------------------- uninstall(extension, force)

\* The gallery identifier (publisher.name) of a local extension.
getGalleryExtensionIdFromLocal(local) == local[1]

\* manifest.extensionDependencies of a local extension, as gallery identifiers.
extensionDependencies(local) == un.deps[getGalleryExtensionIdFromLocal(local)]

\* The order in which a scan lists the folders of a root.
FolderOrder == <<"a", "b", "c", "d">>

\* The records of S in scan order.
InScanOrder(S) ==
    LET present == SelectSeq(FolderOrder, LAMBDA n : \E i \in S : i[1] = n) IN
    [k \in 1..Len(present) |-> CHOOSE i \in S : i[1] = present[k]]

hasDependencies(extension, installed) ==
    /\ extensionDependencies(extension) # {}
    /\ \E i \in installed : getGalleryExtensionIdFromLocal(i) \in extensionDependencies(extension)

getDependents(extension, installed) ==
    {e \in installed : getGalleryExtensionIdFromLocal(extension) \in extensionDependencies(e)}

RECURSIVE getDependenciesToUninstallRecursively(_, _, _)
RECURSIVE DepsOfDeps(_, _, _, _)
\* The depth-first walk over extensionDependencies; checked is the array the
\* calls share, returned with the dependencies found.
getDependenciesToUninstallRecursively(extension, installed, checked) ==
    IF extension \in checked THEN [deps |-> {}, checked |-> checked]
    ELSE IF extensionDependencies(extension) = {}
    THEN [deps |-> {}, checked |-> checked \cup {extension}]
    ELSE LET dependenciesToUninstall ==
                {i \in installed : getGalleryExtensionIdFromLocal(i) \in extensionDependencies(extension)}
             rest == DepsOfDeps(InScanOrder(dependenciesToUninstall), 1, installed,
                                checked \cup {extension}) IN
         [deps |-> dependenciesToUninstall \cup rest.deps, checked |-> rest.checked]

\* The loop over dependenciesToUninstall that collects depsOfDeps.
DepsOfDeps(todo, k, installed, checked) ==
    IF k > Len(todo) THEN [deps |-> {}, checked |-> checked]
    ELSE LET first == getDependenciesToUninstallRecursively(todo[k], installed, checked)
             rest == DepsOfDeps(todo, k + 1, installed, first.checked) IN
         [deps |-> first.deps \cup rest.deps, checked |-> rest.checked]

\* Only the dependencies the extension itself declares.
AllDependenciesDirect(extension, installed) ==
    {i \in installed \ {extension} :
        getGalleryExtensionIdFromLocal(i) \in extensionDependencies(extension)}

\* The dependencies of extension that "All" and force select.
AllDependencies(extension, installed) ==
    getDependenciesToUninstallRecursively(extension, installed, {}).deps \ {extension}

\* No dependency is dropped.
filterDependentsKeepAll(extension, dependencies, installed) == dependencies

\* A dependency is dropped when an installed extension other than the target
\* and outside dependencies depends on it.
filterDependents(extension, dependencies, installed) ==
    LET others == {i \in installed : i # extension /\ extensionDependencies(i) # {}} IN
    {dep \in dependencies : getDependents(dep, others) \ dependencies = {}}

\* The message names the first dependent, the first two, or the first two "and others".
getDependentsErrorMessage(extension, dependents) ==
    [extension |-> getGalleryExtensionIdFromLocal(extension),
     named |-> {getGalleryExtensionIdFromLocal(dependents[k]) :
                    k \in {j \in 1..Len(dependents) : j <= 2}},
     others |-> Len(dependents) > 2]

NoMessage == [extension |-> "none", named |-> {}, others |-> FALSE]

UnOutdatedAcc == <<"un", "outdated", 0>>
UnScanAcc == <<"un", "scan", 0>>
\* removeExtensions' and uninstallExtension's accesses for identifier i.
UnOutAcc(i) == ClnAcc(i)
UnAcc(i) == GalRbAcc(i)

NoLocal == <<"none", 0>>

\* What the prompt settled with: the index of an option, or a rejection.
NoAnswer == [given |-> FALSE, rejected |-> FALSE, value |-> 0]

\* uninstall has not been called. deps holds the manifests on disk.
UnIdle(deps) ==
    [pc |-> "idle", name |-> "none", force |-> FALSE, deps |-> deps,
     obsolete |-> {}, out |-> [i \in LocalIds |-> "none"],
     installed |-> {}, extension |-> NoLocal, dependencies |-> {},
     mem |-> [i \in LocalIds |-> "none"],
     events |-> [i \in LocalIds |-> <<>>], marked |-> {}, fs |-> {},
     answer |-> NoAnswer, choice |-> "none",
     result |-> "none", message |-> NoMessage]

NoDependencies == [n \in Names |-> {}]

\* An uninstall or didUninstall event; un.events keeps them by identifier.
UninstallEvent(kind, error) == [kind |-> kind, error |-> error]

\* The error handler of checkForDependenciesAndUninstall: postUninstallExtension
\* with ErrorCode.LOCAL fires at once, and the error goes to the caller.
UnFail(u, error) ==
    [u EXCEPT !.events[u.extension] = Append(@, UninstallEvent("didUninstall", "LOCAL")),
              !.pc = "rejected", !.result = error]

\* The removal starts without the dependents check.
uninstallWithDependenciesUnchecked(u, L, dependencies) ==
    LET dependenciesToUninstall == filterDependents(u.extension, dependencies, u.installed) IN
    [un |-> [u EXCEPT !.pc = "remove",
                      !.dependencies = dependenciesToUninstall,
                      !.marked = @ \cup {u.extension},
                      !.mem = [i \in LocalIds |->
                                  IF i = u.extension THEN "set"
                                  ELSE IF i \in dependenciesToUninstall THEN "exists"
                                  ELSE "none"]],
     lim |-> withObsoleteExtensions(L, UnAcc(u.extension), "set", {u.extension})]

\* uninstallWithDependencies, as [un, lim]: the dependents check, then the
\* join of uninstallExtension(extension.id) and doUninstall of each dependency.
uninstallWithDependencies(u, L, dependencies) ==
    LET dependenciesToUninstall == filterDependents(u.extension, dependencies, u.installed)
        dependents == InScanOrder({e \in getDependents(u.extension, u.installed) :
                                      e # u.extension /\ e \notin dependenciesToUninstall}) IN
    IF Len(dependents) > 0
    THEN [un |-> [UnFail(u, "DependentsBlock") EXCEPT
                      !.dependencies = dependenciesToUninstall,
                      !.message = getDependentsErrorMessage(u.extension, dependents)],
          lim |-> L]
    ELSE [un |-> [u EXCEPT !.pc = "remove",
                           !.dependencies = dependenciesToUninstall,
                           !.marked = @ \cup {u.extension},
                           !.mem = [i \in LocalIds |->
                                       IF i = u.extension THEN "set"
                                       ELSE IF i \in dependenciesToUninstall THEN "exists"
                                       ELSE "none"]],
          lim |-> withObsoleteExtensions(L, UnAcc(u.extension), "set", {u.extension})]

\* Every answer but "All" uninstalls the extension alone.
DecisionNeverCanceled(withDependencies, value) ==
    IF withDependencies /\ value = 1 THEN "all" ELSE "only"

\* What the prompt's answer (or force) selects: the index of the option chosen
\* among "Only" / "All" / "Cancel", or "OK" / "Cancel" without dependencies.
Decision(withDependencies, value) ==
    IF value = 0 THEN "only"
    ELSE IF withDependencies /\ value = 1 THEN "all"
    ELSE "canceled"

\* The continuation of a decision, as [un, lim].
UnDecided(u, L, decision) ==
    LET u1 == [u EXCEPT !.choice = decision] IN
    CASE decision = "only" -> uninstallWithDependencies(u1, L, {})
      [] decision = "all" ->
            uninstallWithDependencies(u1, L, AllDependencies(u.extension, u.installed))
      [] OTHER -> [un |-> UnFail(u1, "Canceled"), lim |-> L]

\* The prompt is shown whatever force is.
UnAfterPreUninstallAlwaysPrompts(u, L) == [un |-> [u EXCEPT !.pc = "prompt"], lim |-> L]

\* promptForDependenciesAndUninstall / promptAndUninstall, as [un, lim]: force
\* decides without the prompt.
UnAfterPreUninstall(u, L) ==
    IF u.force
    THEN UnDecided(u, L, IF hasDependencies(u.extension, u.installed) THEN "all" ELSE "only")
    ELSE [un |-> [u EXCEPT !.pc = "prompt"], lim |-> L]

\* uninstall: removeOutdatedExtensions starts with scanExtensionFolders.
uninstall(name, force) ==
    /\ un.pc = "idle"
    /\ un' = [un EXCEPT !.pc = "outdatedIndex", !.name = name, !.force = force]
    /\ lim' = withObsoleteExtensions(lim, UnOutdatedAcc, "get", {})
    /\ UNCHANGED <<obsoleteFile, expected, faults, indexVars, dirs, loc, gal, cln>>

\* getOutdatedExtensionIds: getObsoleteExtensions settled.
UnOutdatedIndexSettled ==
    /\ un.pc = "outdatedIndex"
    /\ \E s \in Settlements(UnOutdatedAcc) :
        /\ Settle(UnOutdatedAcc, s)
        /\ lim' = LimiterConsumed(lim, UnOutdatedAcc)
        /\ un' = IF s.ok THEN [un EXCEPT !.pc = "outdatedReaddir", !.obsolete = s.res]
                 ELSE [un EXCEPT !.pc = "rejected", !.result = "CleanupError"]
    /\ UNCHANGED <<indexVars, dirs, loc, gal, cln>>

\* The obsolete folders are listed with the others.
getOutdatedExtensionIdsWithObsolete(obsolete) ==
    LET folders == {i \in LocalIds : dirs[i] # "absent"} IN
    folders \ HighestVersions(folders)

\* The folders of the user root that are not obsolete, all but the highest
\* version of each identifier.
getOutdatedExtensionIds(obsolete) ==
    LET folders == {i \in LocalIds : dirs[i] # "absent" /\ i \notin obsolete} IN
    folders \ HighestVersions(folders)

\* scanUserExtensions starts, as [un, lim].
UnStartScan(u, L) ==
    [un |-> [u EXCEPT !.pc = "scanIndex"],
     lim |-> withObsoleteExtensions(L, UnScanAcc, "get", {})]

\* The join rejects with the first removal that fails.
UnAfterOutdatedFirstError(u, L) ==
    IF \E i \in LocalIds : u.out[i] = "failed"
    THEN [un |-> [u EXCEPT !.pc = "rejected", !.result = "CleanupError"], lim |-> L]
    ELSE IF \E i \in LocalIds : u.out[i] \in {"rimraf", "unset"} THEN [un |-> u, lim |-> L]
    ELSE UnStartScan(u, L)

\* The join of removeExtensions settled once no removal is pending, as [un, lim].
UnAfterOutdated(u, L) ==
    IF \E i \in LocalIds : u.out[i] \in {"rimraf", "unset"} THEN [un |-> u, lim |-> L]
    ELSE IF \E i \in LocalIds : u.out[i] = "failed"
    THEN [un |-> [u EXCEPT !.pc = "rejected", !.result = "CleanupError"], lim |-> L]
    ELSE UnStartScan(u, L)

\* Every listed folder is removed, the highest versions too.
UnOutdatedReaddirDoneEveryFolder ==
    /\ un.pc = "outdatedReaddir"
    /\ LET outdated == {i \in LocalIds : dirs[i] # "absent" /\ i \notin un.obsolete}
           n == UnAfterOutdated([un EXCEPT !.pc = "outdatedRemove",
                                    !.out = [i \in LocalIds |->
                                               IF i \in outdated THEN "rimraf" ELSE "none"]],
                                lim) IN
       /\ un' = n.un
       /\ lim' = n.lim
    /\ UNCHANGED <<obsoleteFile, expected, faults, indexVars, dirs, loc, gal, cln>>

\* getOutdatedExtensionIds: the root was listed; removeExtensions issues a
\* rimraf per outdated folder.
UnOutdatedReaddirDone ==
    /\ un.pc = "outdatedReaddir"
    /\ \/ /\ LET outdated == getOutdatedExtensionIds(un.obsolete)
                 n == UnAfterOutdated([un EXCEPT !.pc = "outdatedRemove",
                                          !.out = [i \in LocalIds |->
                                                     IF i \in outdated THEN "rimraf" ELSE "none"]],
                                      lim) IN
             /\ un' = n.un
             /\ lim' = n.lim
          /\ faults' = faults
       \/ /\ faults < MaxFaults
          /\ faults' = faults + 1
          /\ un' = [un EXCEPT !.pc = "rejected", !.result = "CleanupError"]
          /\ lim' = lim
    /\ UNCHANGED <<obsoleteFile, expected, indexVars, dirs, loc, gal, cln>>

\* removeExtensions: rimraf of an outdated folder completed; its entry is deleted.
UnOutdatedRimrafDone(i) ==
    /\ un.pc = "outdatedRemove"
    /\ un.out[i] = "rimraf"
    /\ \E o \in FsOutcomes("rimraf", dirs[i]) :
        /\ dirs' = [dirs EXCEPT ![i] = o.dir]
        /\ faults' = faults + o.fault
        /\ LET n == UnAfterOutdated([un EXCEPT !.out[i] = IF o.ok THEN "unset" ELSE "failed"],
                                    IF o.ok THEN withObsoleteExtensions(lim, UnOutAcc(i), "unset", {i})
                                    ELSE lim) IN
           /\ un' = n.un
           /\ lim' = n.lim
    /\ UNCHANGED <<obsoleteFile, expected, indexVars, loc, gal, cln>>

UnOutdatedUnsetSettled(i) ==
    /\ un.pc = "outdatedRemove"
    /\ un.out[i] = "unset"
    /\ \E s \in Settlements(UnOutAcc(i)) :
        /\ Settle(UnOutAcc(i), s)
        /\ LET n == UnAfterOutdated([un EXCEPT !.out[i] = IF s.ok THEN "done" ELSE "failed"],
                                    LimiterConsumed(lim, UnOutAcc(i))) IN
           /\ un' = n.un
           /\ lim' = n.lim
    /\ UNCHANGED <<indexVars, dirs, loc, gal, cln>>

\* scanExtensionFolders of scanUserExtensions: getObsoleteExtensions settled.
UnScanIndexSettled ==
    /\ un.pc = "scanIndex"
    /\ \E s \in Settlements(UnScanAcc) :
        /\ Settle(UnScanAcc, s)
        /\ lim' = LimiterConsumed(lim, UnScanAcc)
        /\ un' = IF s.ok THEN [un EXCEPT !.pc = "scanReaddir", !.obsolete = s.res]
                 ELSE [un EXCEPT !.pc = "rejected", !.result = "ScanError"]
    /\ UNCHANGED <<indexVars, dirs, loc, gal, cln>>

\* uninstall's continuation of scanUserExtensions: the installed records with
\* the publisher and name of the argument start checkForDependenciesAndUninstall,
\* whose preUninstallExtension issues pfs.exists.
UnAfterScan(u, installed) ==
    LET matches == {e \in installed : getGalleryExtensionIdFromLocal(e) = u.name} IN
    IF matches = {} THEN [u EXCEPT !.pc = "resolved", !.result = "ok", !.installed = installed]
    ELSE [u EXCEPT !.pc = "exists", !.installed = installed,
                   !.extension = CHOOSE e \in matches : TRUE]

\* scanUserExtensions: the root and its folders were read.
UnScanReaddirDone ==
    /\ un.pc = "scanReaddir"
    /\ LET folders == ScanFolders("user", un.obsolete) IN
       \/ /\ un' = UnAfterScan(un, HighestVersions(folders))
          /\ faults' = faults
       \/ /\ faults < MaxFaults
          /\ faults' = faults + 1
          /\ \/ un' = [un EXCEPT !.pc = "rejected", !.result = "ScanError"]
             \/ \E x \in folders : un' = UnAfterScan(un, HighestVersions(folders \ {x}))
    /\ UNCHANGED <<obsoleteFile, lim, expected, indexVars, dirs, loc, gal, cln>>

\* The outcomes of pfs.exists on the directory of i: it is there, or it is not
\* (another process may have removed it since the scan).
ExistsOutcomes(i) ==
    {[exists |-> dirs[i] # "absent", dir |-> dirs[i], fault |-> 0]}
    \cup (IF faults < MaxFaults /\ dirs[i] # "absent"
          THEN {[exists |-> FALSE, dir |-> "absent", fault |-> 1]}
          ELSE {})

\* The uninstall event is fired before the outcome of pfs.exists is looked at.
UnExistsDoneFiresFirst ==
    /\ un.pc = "exists"
    /\ \E o \in ExistsOutcomes(un.extension) :
        /\ dirs' = [dirs EXCEPT ![un.extension] = o.dir]
        /\ faults' = faults + o.fault
        /\ LET u == [un EXCEPT !.events[un.extension] = Append(@, UninstallEvent("uninstall", "none"))]
               n == IF o.exists THEN UnAfterPreUninstall(u, lim)
                    ELSE [un |-> UnFail(u, "NotFound"), lim |-> lim] IN
           /\ un' = n.un
           /\ lim' = n.lim
    /\ UNCHANGED <<obsoleteFile, expected, indexVars, loc, gal, cln>>

\* preUninstallExtension of the target settled: "Could not find extension", or
\* the uninstall event is fired and the prompt (or force) decides.
UnExistsDone ==
    /\ un.pc = "exists"
    /\ \E o \in ExistsOutcomes(un.extension) :
        /\ dirs' = [dirs EXCEPT ![un.extension] = o.dir]
        /\ faults' = faults + o.fault
        /\ LET n == IF o.exists
                    THEN UnAfterPreUninstall(
                            [un EXCEPT !.events[un.extension] = Append(@, UninstallEvent("uninstall", "none"))],
                            lim)
                    ELSE [un |-> UnFail(un, "NotFound"), lim |-> lim] IN
           /\ un' = n.un
           /\ lim' = n.lim
    /\ UNCHANGED <<obsoleteFile, expected, indexVars, loc, gal, cln>>

PromptValues == {0, 1, 2}

\* choiceService.choose settled with the index of an option.
UnPromptDone ==
    /\ un.pc = "prompt"
    /\ \E value \in PromptValues :
        LET n == UnDecided([un EXCEPT !.answer = [given |-> TRUE, rejected |-> FALSE, value |-> value]],
                           lim, Decision(hasDependencies(un.extension, un.installed), value)) IN
        /\ un' = n.un
        /\ lim' = n.lim
    /\ UNCHANGED <<obsoleteFile, expected, faults, indexVars, dirs, loc, gal, cln>>

\* choiceService.choose rejected.
UnPromptRejected ==
    /\ un.pc = "prompt"
    /\ LET n == UnDecided([un EXCEPT !.answer = [given |-> TRUE, rejected |-> TRUE, value |-> 0]],
                           lim, "rejected") IN
        /\ un' = n.un
        /\ lim' = n.lim
    /\ UNCHANGED <<obsoleteFile, expected, faults, indexVars, dirs, loc, gal, cln>>

UnPendingPcs == {"exists", "set", "rimraf", "unset", "report"}

\* The failure of the target's own removal fires a didUninstall event as well.
UnMemberFailedFiresForTarget(u, i) ==
    [u EXCEPT !.mem[i] = "failed",
              !.events[i] = Append(@, UninstallEvent("didUninstall", "LOCAL"))]

\* A step of a member failed: doUninstall's error handler fires the
\* dependency's didUninstall event with ErrorCode.LOCAL; the target's error
\* goes to the join.
UnMemberFailed(u, i) ==
    [u EXCEPT !.mem[i] = "failed",
              !.events[i] = IF i = u.extension THEN @
                            ELSE Append(@, UninstallEvent("didUninstall", "LOCAL"))]

\* The first failure settles the join, the other members still pending.
UnAfterRemoveFirstError(u) ==
    IF \E i \in LocalIds : u.mem[i] = "failed" THEN UnFail(u, "RemoveError")
    ELSE IF \E i \in LocalIds : u.mem[i] \in UnPendingPcs THEN u
    ELSE [u EXCEPT !.pc = "report"]

\* The join of uninstallWithDependencies settled once no member is pending: its
\* error goes to the handler of checkForDependenciesAndUninstall, else
\* postUninstallExtension of the target reports the statistic.
UnAfterRemove(u) ==
    IF \E i \in LocalIds : u.mem[i] \in UnPendingPcs THEN u
    ELSE IF \E i \in LocalIds : u.mem[i] = "failed" THEN UnFail(u, "RemoveError")
    ELSE [u EXCEPT !.pc = "report"]

\* doUninstall of a dependency: preUninstallExtension settled.
UnMemExistsDone(i) ==
    /\ un.pc = "remove"
    /\ un.mem[i] = "exists"
    /\ \E o \in ExistsOutcomes(i) :
        /\ dirs' = [dirs EXCEPT ![i] = o.dir]
        /\ faults' = faults + o.fault
        /\ IF o.exists
           THEN /\ un' = [un EXCEPT !.mem[i] = "set", !.marked = @ \cup {i},
                                    !.events[i] = Append(@, UninstallEvent("uninstall", "none"))]
                /\ lim' = withObsoleteExtensions(lim, UnAcc(i), "set", {i})
           ELSE /\ un' = UnAfterRemove(UnMemberFailed(un, i))
                /\ lim' = lim
    /\ UNCHANGED <<obsoleteFile, expected, indexVars, loc, gal, cln>>

\* pfs.rimraf is issued whether or not setObsolete succeeded.
UnMemSetSettledUnchecked(i) ==
    /\ un.pc = "remove"
    /\ un.mem[i] = "set"
    /\ \E s \in Settlements(UnAcc(i)) :
        /\ Settle(UnAcc(i), s)
        /\ lim' = LimiterConsumed(lim, UnAcc(i))
        /\ un' = [un EXCEPT !.mem[i] = "rimraf", !.fs = @ \cup {i}]
    /\ UNCHANGED <<indexVars, dirs, loc, gal, cln>>

\* uninstallExtension: setObsolete settled, pfs.rimraf is issued.
UnMemSetSettled(i) ==
    /\ un.pc = "remove"
    /\ un.mem[i] = "set"
    /\ \E s \in Settlements(UnAcc(i)) :
        /\ Settle(UnAcc(i), s)
        /\ lim' = LimiterConsumed(lim, UnAcc(i))
        /\ un' = IF s.ok THEN [un EXCEPT !.mem[i] = "rimraf", !.fs = @ \cup {i}]
                 ELSE UnAfterRemove(UnMemberFailed(un, i))
    /\ UNCHANGED <<indexVars, dirs, loc, gal, cln>>

\* uninstallExtension: rimraf completed, unsetObsolete is queued.
UnMemRimrafDone(i) ==
    /\ un.pc = "remove"
    /\ un.mem[i] = "rimraf"
    /\ \E o \in FsOutcomes("rimraf", dirs[i]) :
        /\ dirs' = [dirs EXCEPT ![i] = o.dir]
        /\ faults' = faults + o.fault
        /\ IF o.ok
           THEN /\ un' = [un EXCEPT !.mem[i] = "unset"]
                /\ lim' = withObsoleteExtensions(lim, UnAcc(i), "unset", {i})
           ELSE /\ un' = UnAfterRemove(UnMemberFailed(un, i))
                /\ lim' = lim
    /\ UNCHANGED <<obsoleteFile, expected, indexVars, loc, gal, cln>>

\* uninstallExtension: unsetObsolete settled. The target waits for the join; a
\* dependency's postUninstallExtension reports the statistic.
UnMemUnsetSettled(i) ==
    /\ un.pc = "remove"
    /\ un.mem[i] = "unset"
    /\ \E s \in Settlements(UnAcc(i)) :
        /\ Settle(UnAcc(i), s)
        /\ lim' = LimiterConsumed(lim, UnAcc(i))
        /\ un' = IF ~s.ok THEN UnAfterRemove(UnMemberFailed(un, i))
                 ELSE IF i = un.extension THEN UnAfterRemove([un EXCEPT !.mem[i] = "done"])
                 ELSE [un EXCEPT !.mem[i] = "report"]
    /\ UNCHANGED <<indexVars, dirs, loc, gal, cln>>

\* postUninstallExtension without an error: the didUninstall event is fired
\* after galleryService.reportStatistic resolved; when it rejects, the await
\* throws and the rejection leaves the success continuation with no event.
postUninstallExtension(u, i, reported) ==
    IF reported
    THEN [u EXCEPT !.events[i] = Append(@, UninstallEvent("didUninstall", "none"))]
    ELSE u

\* postUninstallExtension of a dependency: reportStatistic settled.
UnMemReportDone(i) ==
    /\ un.pc = "remove"
    /\ un.mem[i] = "report"
    /\ \/ /\ un' = UnAfterRemove([postUninstallExtension(un, i, TRUE) EXCEPT !.mem[i] = "done"])
          /\ faults' = faults
       \/ /\ faults < MaxFaults
          /\ faults' = faults + 1
          /\ un' = UnAfterRemove([postUninstallExtension(un, i, FALSE) EXCEPT !.mem[i] = "failed"])
    /\ UNCHANGED <<obsoleteFile, lim, expected, indexVars, dirs, loc, gal, cln>>

\* postUninstallExtension of the target: reportStatistic settled, and the join
\* of uninstall with it.
UnReportDone ==
    /\ un.pc = "report"
    /\ \/ /\ un' = [postUninstallExtension(un, un.extension, TRUE) EXCEPT
                        !.pc = "resolved", !.result = "ok"]
          /\ faults' = faults
       \/ /\ faults < MaxFaults
          /\ faults' = faults + 1
          /\ un' = [postUninstallExtension(un, un.extension, FALSE) EXCEPT
                        !.pc = "rejected", !.result = "StatisticError"]
    /\ UNCHANGED <<obsoleteFile, lim, expected, indexVars, dirs, loc, gal, cln>>

\* ------------------------------------------------------- UninstallAction

\* LocalExtensionType of a record: the root it was scanned from.
TypeOf(local) == IF local \in SystemExtensions THEN "System" ELSE "User"

\* extensionsWorkbenchService.local: the records of both roots.
WorkbenchLocal ==
    SystemExtensions
    \cup HighestVersions({i \in LocalIds : dirs[i] \in Readable /\ i \notin ReadObsolete(obsoleteFile)})

\* The type of the installed extension is not looked at.
UninstallActionEnabledAnyType(extension, uninstalling) ==
    IF uninstalling THEN FALSE
    ELSE {e \in WorkbenchLocal : e = extension} # {}

\* UninstallAction.update: the value it gives to enabled.
UninstallActionEnabled(extension, uninstalling) ==
    IF uninstalling THEN FALSE
    ELSE LET installedExtensions == {e \in WorkbenchLocal : e = extension} IN
         IF installedExtensions = {} THEN FALSE
         ELSE \A e \in installedExtensions : TypeOf(e) = "User"

\* The extensions a client asks to uninstall.
UninstallTargets == {<<"a", 2>>, <<"system", 0>>}

\* UninstallAction.run, which the workbench lets through when enabled.
UninstallActionRun ==
    \E extension \in UninstallTargets :
        /\ UninstallActionEnabled(extension, un.pc # "idle")
        /\ uninstall(getGalleryExtensionIdFromLocal(extension), FALSE)

\* --------------------------------------------------------- specifications

\* The disk install operations start from: some identifiers pending deletion
\* (directory still there, marked obsolete), some installed.
InstallInit ==
    /\ \E ob \in SUBSET {<<"a", 1>>, <<"c", 1>>}, inst \in {{}, {<<"b", 1>>}, {<<"b", 2>>}} :
        /\ dirs = [i \in LocalIds |-> IF i \in ob \cup inst THEN "installed" ELSE "absent"]
        /\ obsoleteFile = Persist(ob)
    /\ lim = LimInit
    /\ expected = ReadObsolete(obsoleteFile)
    /\ faults = 0
    /\ clients = ClientInit
    /\ calls = 0
    /\ maxPending = 0
    /\ loc = LocIdle
    /\ gal = GalIdle
    /\ cln = ClnIdle
    /\ un = UnIdle(NoDependencies)

\* A behaviour runs local-package installs beside the obsolete cleanup, or one
\* registry install.
Next ==
    \/ gal.pc = "idle" /\ \E zip \in Zips : install(zip)
    \/ LocValidateDone
    \/ LocIsObsoleteSettled
    \/ LocInstallExtensionStep
    \/ gal.pc = "idle" /\ removeObsoleteExtensions
    \/ ClnGetSettled
    \/ \E i \in LocalIds : ClnRimrafDone(i)
    \/ \E i \in LocalIds : ClnUnsetSettled(i)
    \/ loc.pc = "idle" /\ cln.pc = "idle" /\ installFromGallery
    \/ GalLoadCompatibleVersionDone
    \/ GalGetAllDependenciesDone
    \/ \E r \in Roots : GalScanIndexSettled(r)
    \/ \E r \in Roots : GalScanReaddirDone(r)
    \/ GalCheckForObsoleteSettled
    \/ \E k \in Members : GalDownloadStep(k)
    \/ \E k \in Members : GalInstallExtensionStep(k)
    \/ \E k \in Members : GalRbSetSettled(k)
    \/ \E k \in Members : GalRbRimrafDone(k)
    \/ \E k \in Members : GalRbUnsetSettled(k)
    \/ \E a \in AccIds : ReadFileDone(a)

Spec == InstallInit /\ [][Next]_vars

IndexInit ==
    /\ obsoleteFile \in {NoFile, CorruptFile, JSONStringify({getLocalExtensionId("b", 1)})}
    /\ lim = LimInit
    /\ expected = ReadObsolete(obsoleteFile)
    /\ faults = 0
    /\ clients = ClientInit
    /\ calls = 0
    /\ maxPending = 0
    /\ dirs = [i \in LocalIds |-> "absent"]
    /\ loc = LocIdle
    /\ gal = GalIdle
    /\ cln = ClnIdle
    /\ un = UnIdle(NoDependencies)

IndexNext ==
    \/ \E c \in Clients : setObsolete(c)
    \/ \E c \in Clients : unsetObsolete(c)
    \/ \E c \in Clients : filterObsolete(c)
    \/ \E a \in AccIds : ReadFileDone(a)
    \/ \E c \in Clients : ClientSettled(c)

SpecIndex == IndexInit /\ [][IndexNext]_vars

\* The extensions the dependency closure of the extension to uninstall is drawn
\* from; the others can only depend on it or on its dependencies.
ClosureNames == {"b", "c"}

RECURSIVE DependencyClosure(_, _)
\* The extensions reached from those of S through the dependencies D declares.
DependencyClosure(D, S) ==
    LET next == S \cup UNION {D[n] : n \in S} IN
    IF next = S THEN S ELSE DependencyClosure(D, next)

\* The manifests on disk: which extensions each one declares as dependencies.
Manifests ==
    {D \in [Names -> SUBSET Names] :
        /\ \A n \in Names : n \notin D[n]
        /\ Cardinality({e \in Names \X Names : e[2] \in D[e[1]]}) <= MaxEdges
        /\ DependencyClosure(D, {"a"}) \subseteq {"a"} \cup ClosureNames}

\* uninstall starts from every extension installed at version 2, with an
\* outdated version 1 of one of them beside it.
UninstallInit ==
    /\ \E deps \in Manifests :
        /\ dirs = [i \in LocalIds |-> IF i[2] = 2 \/ i = <<"b", 1>> THEN "installed" ELSE "absent"]
        /\ un = UnIdle(deps)
    /\ obsoleteFile = NoFile
    /\ lim = LimInit
    /\ expected = ReadObsolete(obsoleteFile)
    /\ faults = 0
    /\ clients = ClientInit
    /\ calls = 0
    /\ maxPending = 0
    /\ loc = LocIdle
    /\ gal = GalIdle
    /\ cln = ClnIdle

UninstallNext ==
    \/ \E extension \in UninstallTargets, force \in BOOLEAN :
            uninstall(getGalleryExtensionIdFromLocal(extension), force)
    \/ UninstallActionRun
    \/ UnOutdatedIndexSettled
    \/ UnOutdatedReaddirDone
    \/ \E i \in LocalIds : UnOutdatedRimrafDone(i)
    \/ \E i \in LocalIds : UnOutdatedUnsetSettled(i)
    \/ UnScanIndexSettled
    \/ UnScanReaddirDone
    \/ UnExistsDone
    \/ UnPromptDone
    \/ UnPromptRejected
    \/ \E i \in LocalIds : UnMemExistsDone(i)
    \/ \E i \in LocalIds : UnMemSetSettled(i)
    \/ \E i \in LocalIds : UnMemRimrafDone(i)
    \/ \E i \in LocalIds : UnMemUnsetSettled(i)
    \/ \E i \in LocalIds : UnMemReportDone(i)
    \/ UnReportDone
    \/ \E a \in AccIds : ReadFileDone(a)

SpecUninstall == UninstallInit /\ [][UninstallNext]_vars

\* The manifests the dependency walk is applied to: any declared dependencies,
\* cycles and self-dependencies among them.
WalkManifests ==
    {D \in [Names -> SUBSET Names] :
        Cardinality({e \in Names \X Names : e[2] \in D[e[1]]}) <= MaxEdges}

WalkInit ==
    /\ \E deps \in WalkManifests : un = UnIdle(deps)
    /\ dirs = [i \in LocalIds |-> IF i[2] = 2 THEN "installed" ELSE "absent"]
    /\ obsoleteFile = NoFile
    /\ lim = LimInit
    /\ expected = ReadObsolete(obsoleteFile)
    /\ faults = 0
    /\ clients = ClientInit
    /\ calls = 0
    /\ maxPending = 0
    /\ loc = LocIdle
    /\ gal = GalIdle
    /\ cln = ClnIdle

\* promptForDependenciesAndUninstall computes the dependencies to uninstall of
\* one of the scanned extensions.
WalkDependencies ==
    /\ un.pc = "idle"
    /\ \E installed \in SUBSET {i \in LocalIds : dirs[i] \in Readable} :
        \E extension \in installed :
            un' = [un EXCEPT !.pc = "walked", !.installed = installed, !.extension = extension,
                             !.dependencies = AllDependencies(extension, installed)]
    /\ UNCHANGED <<obsoleteFile, lim, expected, faults, indexVars, dirs, loc, gal, cln>>

SpecWalk == WalkInit /\ [][WalkDependencies]_vars

\* The user root the cleanups and the scans start from: any of the two versions
\* of a and of b on disk, some of the identifiers marked obsolete.
CleanupDirs == {<<"a", 1>>, <<"a", 2>>, <<"b", 1>>, <<"b", 2>>}
CleanupMarks == {<<"a", 1>>, <<"a", 2>>, <<"b", 1>>}

CleanupInit ==
    /\ \E present \in SUBSET CleanupDirs, ob \in SUBSET CleanupMarks :
        /\ dirs = [i \in LocalIds |-> IF i \in present THEN "installed" ELSE "absent"]
        /\ obsoleteFile = Persist(ob)
    /\ lim = LimInit
    /\ expected = ReadObsolete(obsoleteFile)
    /\ faults = 0
    /\ clients = ClientInit
    /\ calls = 0
    /\ maxPending = 0
    /\ loc = LocIdle
    /\ gal = GalIdle
    /\ cln = ClnIdle
    /\ un = UnIdle(NoDependencies)

\* removeObsoleteExtensions beside an uninstall up to the end of its scan:
\* removeOutdatedExtensions, then scanUserExtensions.
CleanupNext ==
    \/ removeObsoleteExtensions
    \/ ClnGetSettled
    \/ \E i \in LocalIds : ClnRimrafDone(i)
    \/ \E i \in LocalIds : ClnUnsetSettled(i)
    \/ \E extension \in UninstallTargets : uninstall(getGalleryExtensionIdFromLocal(extension), FALSE)
    \/ UnOutdatedIndexSettled
    \/ UnOutdatedReaddirDone
    \/ \E i \in LocalIds : UnOutdatedRimrafDone(i)
    \/ \E i \in LocalIds : UnOutdatedUnsetSettled(i)
    \/ UnScanIndexSettled
    \/ UnScanReaddirDone
    \/ \E a \in AccIds : ReadFileDone(a)

SpecCleanup == CleanupInit /\ [][CleanupNext]_vars

\* ------------------------- install beside uninstall of the same identifier

\* The extension the package of install holds is installed.
RaceInit ==
    /\ dirs = [i \in LocalIds |-> IF i = LocIdle.id THEN "installed" ELSE "absent"]
    /\ obsoleteFile = NoFile
    /\ lim = LimInit
    /\ expected = ReadObsolete(obsoleteFile)
    /\ faults = 0
    /\ clients = ClientInit
    /\ calls = 0
    /\ maxPending = 0
    /\ loc = LocIdle
    /\ gal = GalIdle
    /\ cln = ClnIdle
    /\ un = UnIdle(NoDependencies)

\* install(zipPath) of the package and uninstall(extension, true) of its
\* extension, neither waiting for the other.
RaceNext ==
    \/ \E zip \in Zips : install(zip)
    \/ LocValidateDone
    \/ LocIsObsoleteSettled
    \/ LocInstallExtensionStep
    \/ uninstall(getGalleryExtensionIdFromLocal(LocIdle.id), TRUE)
    \/ UnOutdatedIndexSettled
    \/ UnOutdatedReaddirDone
    \/ UnScanIndexSettled
    \/ UnScanReaddirDone
    \/ UnExistsDone
    \/ \E i \in LocalIds : UnMemSetSettled(i)
    \/ \E i \in LocalIds : UnMemRimrafDone(i)
    \/ \E i \in LocalIds : UnMemUnsetSettled(i)
    \/ UnReportDone
    \/ \E a \in AccIds : ReadFileDone(a)

SpecRace == RaceInit /\ [][RaceNext]_vars

\* -------------------- install, uninstall and cleanup with calls that complete

\* The extension of the package is installed, and the directory of another
\* extension is left marked obsolete.
LiveInit ==
    /\ dirs = [i \in LocalIds |-> IF i \in {LocIdle.id, <<"b", 1>>} THEN "installed" ELSE "absent"]
    /\ obsoleteFile = Persist({<<"b", 1>>})
    /\ lim = LimInit
    /\ expected = ReadObsolete(obsoleteFile)
    /\ faults = 0
    /\ clients = ClientInit
    /\ calls = 0
    /\ maxPending = 0
    /\ loc = LocIdle
    /\ gal = GalIdle
    /\ cln = ClnIdle
    /\ un = UnIdle(NoDependencies)

\* The calls of the service's users, each operation called once.
LiveCalls ==
    \/ loc.calls = 0 /\ \E zip \in Zips : install(zip)
    \/ uninstall(getGalleryExtensionIdFromLocal(LocIdle.id), TRUE)
    \/ removeObsoleteExtensions

\* The completions of the filesystem, index and registry calls in flight.
LiveCompletions ==
    \/ LocValidateDone
    \/ LocIsObsoleteSettled
    \/ LocInstallExtensionStep
    \/ UnOutdatedIndexSettled
    \/ UnOutdatedReaddirDone
    \/ UnScanIndexSettled
    \/ UnScanReaddirDone
    \/ UnExistsDone
    \/ \E i \in LocalIds : UnMemSetSettled(i)
    \/ \E i \in LocalIds : UnMemRimrafDone(i)
    \/ \E i \in LocalIds : UnMemUnsetSettled(i)
    \/ UnReportDone
    \/ ClnGetSettled
    \/ \E i \in LocalIds : ClnRimrafDone(i)
    \/ \E i \in LocalIds : ClnUnsetSettled(i)
    \/ \E a \in AccIds : ReadFileDone(a)

LiveNext == LiveCalls \/ LiveCompletions

\* Every call in flight eventually completes.
SpecLive == LiveInit /\ [][LiveNext]_vars /\ WF_vars(LiveCompletions)

\* ------------------------------- filterDependents(extension, dependencies, installed)

\* Array.prototype.splice(start, 1) with start counted from 0: a negative start
\* counts from the end, a start past the end removes nothing.
Splice(array, start) ==
    LET n == Len(array)
        from == IF start < 0 THEN (IF n + start < 0 THEN 0 ELSE n + start)
                ELSE IF start > n THEN n ELSE start IN
    [k \in 1..(IF from < n THEN n - 1 ELSE n) |-> IF k <= from THEN array[k] ELSE array[k + 1]]

\* The index is not compensated for the entries already removed.
SpliceIndexUncompensated(i, dependencies, result) == i

\* i - (dependencies.length - result.length)
SpliceIndex(i, dependencies, result) == i - (Len(dependencies) - Len(result))

RECURSIVE FilterLoop(_, _, _, _)
\* The for loop of filterDependents, i counted from 0.
FilterLoop(dependencies, result, i, installed) ==
    IF i >= Len(dependencies) THEN result
    ELSE LET dep == dependencies[i + 1]
             dependents == {e \in getDependents(dep, installed) :
                               \A k \in 1..Len(dependencies) : dependencies[k] # e} IN
         FilterLoop(dependencies,
                    IF dependents # {} THEN Splice(result, SpliceIndex(i, dependencies, result))
                    ELSE result,
                    i + 1, installed)

\* filterDependents on the arrays it is given.
filterDependentsOfList(extension, dependencies, installed) ==
    FilterLoop(dependencies, dependencies, 0,
               {i \in installed : i # extension /\ extensionDependencies(i) # {}})

\* The candidate lists: up to three of the installed extensions, in any order.
DependencyLists(installed) == UNION {[1..n -> installed] : n \in 0..(Cardinality(Names) - 1)}

FilterInit ==
    /\ \E deps \in Manifests : un = UnIdle(deps)
    /\ dirs = [i \in LocalIds |-> IF i[2] = 2 THEN "installed" ELSE "absent"]
    /\ obsoleteFile = NoFile
    /\ lim = LimInit
    /\ expected = ReadObsolete(obsoleteFile)
    /\ faults = 0
    /\ clients = ClientInit
    /\ calls = 0
    /\ maxPending = 0
    /\ loc = LocIdle
    /\ gal = GalIdle
    /\ cln = ClnIdle

\* uninstallWithDependencies filters the dependencies it is called with.
FilterDependents ==
    /\ un.pc = "idle"
    /\ LET installed == {i \in LocalIds : dirs[i] \in Readable} IN
       \E extension \in installed, dependencies \in DependencyLists(installed) :
            un' = [pc |-> "filtered", deps |-> un.deps, installed |-> installed,
                   extension |-> extension, dependencies |-> dependencies,
                   result |-> filterDependentsOfList(extension, dependencies, installed)]
    /\ UNCHANGED <<obsoleteFile, lim, expected, faults, indexVars, dirs, loc, gal, cln>>

SpecFilter == FilterInit /\ [][FilterDependents]_vars

\* ------------------------------------------------------- joinErrors(errors)

\* A message is a string, kept as the sequence of its characters.
Chars == {"x", "y"}
Messages == {<<>>} \cup {<<c>> : c \in Chars}

\* What the join of uninstall can hand over: a string, an Error, or an Error
\* that carries more than its message (a code).
ErrorValues ==
    [kind : {"string"}, code : {"none"}, message : Messages]
    \cup [kind : {"Error"}, code : {"none", "LOCAL"}, message : Messages]

\* new Error(message)
NewError(message) == [kind |-> "Error", code |-> "none", message |-> message]

\* currentValue instanceof Error ? currentValue.message : currentValue
MessageOf(e) == e.message

\* The callback of reduce: `${previous.message}${previous.message ? ',' : ''}${current}`.
JoinStep(previousValue, currentValue) ==
    NewError(previousValue.message
             \o (IF previousValue.message # <<>> THEN <<",">> ELSE <<>>)
             \o MessageOf(currentValue))

RECURSIVE Reduce(_, _)
\* errors.reduce(callback, previousValue)
Reduce(errors, previousValue) ==
    IF errors = <<>> THEN previousValue
    ELSE Reduce(Tail(errors), JoinStep(previousValue, Head(errors)))

\* The single error is folded like the others.
joinErrorsAlwaysReduces(errors) == Reduce(errors, NewError(<<>>))

joinErrors(errors) ==
    IF Len(errors) = 1
    THEN IF errors[1].kind = "Error" THEN errors[1] ELSE NewError(errors[1].message)
    ELSE Reduce(errors, NewError(<<>>))

ErrorLists == UNION {[1..n -> ErrorValues] : n \in 1..MaxErrors}

JoinIdle(errors) == [pc |-> "join", errors |-> errors, error |-> NewError(<<>>)]

JoinInit ==
    /\ \E errors \in ErrorLists : un = JoinIdle(errors)
    /\ dirs = [i \in LocalIds |-> "absent"]
    /\ obsoleteFile = NoFile
    /\ lim = LimInit
    /\ expected = ReadObsolete(obsoleteFile)
    /\ faults = 0
    /\ clients = ClientInit
    /\ calls = 0
    /\ maxPending = 0
    /\ loc = LocIdle
    /\ gal = GalIdle
    /\ cln = ClnIdle

\* uninstall: the join rejected, its errors become the error of the call.
JoinRejected ==
    /\ un.pc = "join"
    /\ un' = [un EXCEPT !.pc = "rejected", !.error = joinErrors(un.errors)]
    /\ UNCHANGED <<obsoleteFile, lim, expected, faults, indexVars, dirs, loc, gal, cln>>

SpecJoinErrors == JoinInit /\ [][JoinRejected]_vars

\* ----------------------------------- FileSystemWatcher, $onFileEvent(events)

\* An fsPath is kept as the sequence of its characters.
Sep == "/"
Resources == {<<"/", "w">>, <<"/", "w", "/", "f">>, <<"/", "w", "x">>}

\* folder?: the workspace folder's uri.fsPath, or no folder.
NoFolder == <<>>
Folders == {NoFolder, <<"/", "w">>}

\* A glob pattern: characters, "*" (a run of characters of one segment) and
\* "**" (any run of characters).
GlobPatterns == {<<"**">>, <<"/", "w", "/", "*">>}

RECURSIVE GlobMatch(_, _)
\* parse(globPattern)(path)
GlobMatch(pattern, path) ==
    IF pattern = <<>> THEN path = <<>>
    ELSE IF Head(pattern) = "**"
    THEN GlobMatch(Tail(pattern), path)
         \/ (path # <<>> /\ GlobMatch(pattern, Tail(path)))
    ELSE IF Head(pattern) = "*"
    THEN GlobMatch(Tail(pattern), path)
         \/ (path # <<>> /\ Head(path) # Sep /\ GlobMatch(pattern, Tail(path)))
    ELSE path # <<>> /\ Head(path) = Head(pattern) /\ GlobMatch(Tail(pattern), Tail(path))

\* path.indexOf(candidate) === 0
StartsWith(path, candidate) ==
    Len(candidate) <= Len(path) /\ SubSeq(path, 1, Len(candidate)) = candidate

\* isEqualOrParent(path, candidate) of vs/base/common/paths, case kept.
isEqualOrParent(path, candidate) ==
    IF path = candidate THEN TRUE
    ELSE IF path = <<>> \/ candidate = <<>> THEN FALSE
    ELSE IF Len(candidate) > Len(path) THEN FALSE
    ELSE StartsWith(path, IF candidate[Len(candidate)] # Sep
                          THEN candidate \o <<Sep>> ELSE candidate)

\* matchFolderCondition(resource, folder)
matchFolderCondition(resource, folder) ==
    IF folder = NoFolder THEN TRUE ELSE isEqualOrParent(resource, folder)

\* The constructor of FileSystemWatcher: _config from the three flags; the
\* flags, the folder and the pattern stay in the closure of the subscription.
\* met and fired record how the watcher met the last batch and what it fired.
FileSystemWatcher(globPattern, folder, ignoreCreateEvents, ignoreChangeEvents, ignoreDeleteEvents) ==
    [globPattern |-> globPattern, folder |-> folder,
     ignoreCreateEvents |-> ignoreCreateEvents,
     ignoreChangeEvents |-> ignoreChangeEvents,
     ignoreDeleteEvents |-> ignoreDeleteEvents,
     _config |-> (IF ignoreCreateEvents THEN 1 ELSE 0)
                 + (IF ignoreChangeEvents THEN 2 ELSE 0)
                 + (IF ignoreDeleteEvents THEN 4 ELSE 0),
     disposed |-> FALSE,
     met |-> "none",
     fired |-> [created |-> <<>>, changed |-> <<>>, deleted |-> <<>>]]

\* Boolean(this._config & bit), bit a power of two.
ConfigBit(w, bit) == (w._config \div bit) % 2 = 1

\* get ignoreCreateEvents / ignoreChangeEvents / ignoreDeleteEvents
ignoreCreateEvents(w) == ConfigBit(w, 1)
ignoreChangeEvents(w) == ConfigBit(w, 2)
ignoreDeleteEvents(w) == ConfigBit(w, 4)

\* One loop of the subscription: the resources of the list that are fired.
FireLoop(w, list) ==
    SelectSeq(list, LAMBDA r : matchFolderCondition(r, w.folder)
                               /\ GlobMatch(w.globPattern, r))

\* The delete events are fired whatever the flag says.
SubscriptionDeleteAlways(w, events) ==
    [created |-> IF ~w.ignoreCreateEvents THEN FireLoop(w, events.created) ELSE <<>>,
     changed |-> IF ~w.ignoreChangeEvents THEN FireLoop(w, events.changed) ELSE <<>>,
     deleted |-> FireLoop(w, events.deleted)]

\* The listener the constructor subscribes to the dispatcher.
Subscription(w, events) ==
    [created |-> IF ~w.ignoreCreateEvents THEN FireLoop(w, events.created) ELSE <<>>,
     changed |-> IF ~w.ignoreChangeEvents THEN FireLoop(w, events.changed) ELSE <<>>,
     deleted |-> IF ~w.ignoreDeleteEvents THEN FireLoop(w, events.deleted) ELSE <<>>]

NoEvents == [created |-> <<>>, changed |-> <<>>, deleted |-> <<>>]

\* The batches of the main thread: at most MaxEvents resources in all.
ResourceLists == UNION {[1..n -> Resources] : n \in 0..MaxEvents}
FileSystemEvents ==
    {e \in [created : ResourceLists, changed : ResourceLists, deleted : ResourceLists] :
        Len(e.created) + Len(e.changed) + Len(e.deleted) <= MaxEvents}

WatchInit ==
    /\ un = [pc |-> "watch", watchers |-> <<>>, events |-> NoEvents]
    /\ dirs = [i \in LocalIds |-> "absent"]
    /\ obsoleteFile = NoFile
    /\ lim = LimInit
    /\ expected = ReadObsolete(obsoleteFile)
    /\ faults = 0
    /\ clients = ClientInit
    /\ calls = 0
    /\ maxPending = 0
    /\ loc = LocIdle
    /\ gal = GalIdle
    /\ cln = ClnIdle

\* createFileSystemWatcher, with or without a workspace folder.
createFileSystemWatcher(folder, globPattern, ignoreCreate, ignoreChange, ignoreDelete) ==
    /\ un.pc = "watch"
    /\ Len(un.watchers) < MaxWatchers
    /\ un' = [un EXCEPT !.watchers =
                 Append(@, FileSystemWatcher(globPattern, folder, ignoreCreate,
                                             ignoreChange, ignoreDelete))]
    /\ UNCHANGED <<obsoleteFile, lim, expected, faults, indexVars, dirs, loc, gal, cln>>

\* dispose(): the subscription and the three emitters are disposed.
dispose(k) ==
    /\ un.pc = "watch"
    /\ k \in 1..Len(un.watchers)
    /\ ~un.watchers[k].disposed
    /\ un' = [un EXCEPT !.watchers[k].disposed = TRUE]
    /\ UNCHANGED <<obsoleteFile, lim, expected, faults, indexVars, dirs, loc, gal, cln>>

\* $onFileEvent(events): the emitter calls the listener of every watcher that
\* is still subscribed.
onFileEvent(events) ==
    /\ un.pc = "watch"
    /\ un' = [un EXCEPT
                !.events = events,
                !.watchers = [k \in 1..Len(un.watchers) |->
                    LET w == un.watchers[k] IN
                    IF w.disposed
                    THEN [w EXCEPT !.met = "disposed", !.fired = NoEvents]
                    ELSE [w EXCEPT !.met = "subscribed",
                                   !.fired = Subscription(w, events)]]]
    /\ UNCHANGED <<obsoleteFile, lim, expected, faults, indexVars, dirs, loc, gal, cln>>

WatchNext ==
    \/ \E folder \in Folders, globPattern \in GlobPatterns,
          ignoreCreate \in BOOLEAN, ignoreChange \in BOOLEAN, ignoreDelete \in BOOLEAN :
            createFileSystemWatcher(folder, globPattern, ignoreCreate, ignoreChange,
                                    ignoreDelete)
    \/ \E k \in 1..MaxWatchers : dispose(k)
    \/ \E events \in FileSystemEvents : onFileEvent(events)

SpecWatch == WatchInit /\ [][WatchNext]_vars

\* ------------------------------------------------------------------ claims

FileKeys == ReadObsolete(obsoleteFile)

\* C1: no mark or unmark is lost: the persisted index is the mapping obtained by
\* applying the successful accesses one after the other, and the identifier a
\* caller last marked (unmarked) with success is (is not) in it.
C1_NoLostUpdate ==
    /\ FileKeys = expected
    /\ \A c \in Clients :
        clients[c].pc = "idle" /\ clients[c].ok =>
            /\ clients[c].kind = "set" => ClientId(c) \in FileKeys
            /\ clients[c].kind = "unset" => ClientId(c) \notin FileKeys

\* NClients marks of distinct identifiers were pending at once and all persisted.
C1_ConcurrentMarksPersisted ==
    /\ maxPending = NClients
    /\ \A c \in Clients : clients[c].pc = "idle" /\ clients[c].ok /\ clients[c].kind = "set"
    /\ \A c \in Clients : ClientId(c) \in FileKeys

\* C2: at most one access to the index file is in progress (between the issue of
\* its read and the completion of its write or removal), and an access waits
\* in the queue only while another is in progress.
C2_SingleAccessor ==
    /\ Cardinality(Running(lim)) <= 1
    /\ lim.running = Cardinality(Running(lim))
    /\ lim.outstanding # <<>> => Cardinality(Running(lim)) = 1

\* An access is persisting while two others wait their turn.
C2_AccessWaitsItsTurn ==
    /\ \E a \in AccIds : lim.acc[a].pc = "persist"
    /\ Len(lim.outstanding) = 2

\* C3: an empty mapping is never persisted, and once an access has completed the
\* file exists exactly when the mapping has a marked identifier.
C3_FileIffMarked ==
    /\ obsoleteFile.exists /\ obsoleteFile.valid => obsoleteFile.keys # {}
    /\ (\E c \in Clients : clients[c].pc = "idle" /\ clients[c].ok) =>
            (obsoleteFile.exists <=> FileKeys # {})

\* A mark and the unmark after it completed, leaving no entry and no file.
C3_UnmarkedFileRemoved ==
    /\ calls >= 2
    /\ \E c \in Clients : clients[c].pc = "idle" /\ clients[c].ok /\ clients[c].kind = "unset"
    /\ \A c \in Clients : clients[c].pc = "idle"
    /\ ~obsoleteFile.exists
    /\ expected = {}

\* C4: a local-package install whose identifier the obsolete check read as marked
\* is rejected with RestartRequired, fires no event and writes no directory; one
\* whose identifier it read as unmarked fires the install event and starts the commit.
C4_ObsoleteInstallRejected ==
    /\ loc.saw = "marked" =>
            /\ loc.pc = "rejected" /\ loc.result = "RestartRequired"
            /\ loc.events = <<>> /\ loc.fs = {}
    /\ loc.result = "RestartRequired" => loc.saw = "marked"
    /\ loc.saw = "unmarked" =>
            /\ loc.pc \in InstallPcs \cup {"resolved", "rejected"}
            /\ loc.result \in {"none", "ok", "LocalError"}
            /\ Len(loc.events) >= 1 /\ loc.events[1] = Event("install", loc.id, "none", {})

\* The install rejected with RestartRequired was called again after the
\* identifier was unmarked, and reached the commit phase.
C4_ProceedsAfterUnmark ==
    /\ loc.prev = "RestartRequired"
    /\ loc.saw = "unmarked"
    /\ loc.pc = "extract"
    /\ cln.mem[loc.id] = "done"

GalAborted == gal.checked /\ gal.seen # {}

IsDidInstallError(e) == e.kind = "didInstall" /\ e.error # "none"

\* C5: a registry install whose obsolete check read a batch identifier as marked
\* is rejected (RestartRequired, code OBSOLETE) with no download issued and no
\* directory removed, extracted or written.
C5_ObsoleteBatchAborted ==
    GalAborted =>
        /\ gal.pc = "rejected" /\ gal.result = "OBSOLETE"
        /\ "download" \notin gal.net
        /\ gal.fs = {}
        /\ \A k \in Members : gal.mem[k].pc = "none"

\* A batch of the target and a dependency is aborted for the dependency's identifier.
C5_DependencyObsolete ==
    /\ GalAborted
    /\ Len(gal.toInstall) >= 2
    /\ LocalIdOf(gal.toInstall[1]) \notin gal.seen

\* C6 as stated: on an obsolete abort, every entry of the batch gets an
\* install-finished event with an error.
C6_EveryEntryReported ==
    GalAborted =>
        /\ \E n \in 1..Len(gal.events) :
              IsDidInstallError(gal.events[n]) /\ gal.events[n].id = LocalIdOf(gal.extension)
        /\ \A k \in 2..Len(gal.toInstall) :
              \E n \in 1..Len(gal.events) :
                  IsDidInstallError(gal.events[n]) /\ gal.events[n].id = LocalIdOf(gal.toInstall[k])

\* C6 amended: on an obsolete abort, the only install-finished event is the one
\* for the requested target, with the OBSOLETE error; the dependencies, for
\* which no install-started event was fired, get none.
C6_OnlyTargetReported ==
    GalAborted =>
        SelectSeq(gal.events, LAMBDA e : e.kind = "didInstall")
            = <<Event("didInstall", LocalIdOf(gal.extension), "OBSOLETE", gal.net)>>

\* An aborted batch with two dependencies.
C6_AbortedWithDependencies ==
    /\ GalAborted
    /\ Len(gal.toInstall) = 3
    /\ gal.pc = "rejected"

InstallEvents(g) == SelectSeq(g.events, LAMBDA e : e.kind = "install")

\* C7 as stated: every install-started event of the batch is fired before any
\* registry call.
C7_AllStartedBeforeNetwork ==
    \A n \in 1..Len(gal.events) : gal.events[n].kind = "install" => gal.events[n].net = {}

\* C7 amended: the target's install-started event is fired first and before any
\* registry call; once the obsolete check has passed, one event per dependency of
\* the batch follows in batch order, after version resolution and dependency
\* listing and before any download.
C7_StartedOrder ==
    /\ gal.pc # "idle" =>
            /\ Len(gal.events) >= 1
            /\ gal.events[1] = Event("install", LocalIdOf(gal.extension), "none", {})
    /\ gal.pc \in {"loadCompatibleVersion", "getAllDependencies", "getInstalled", "checkForObsolete"}
            => Len(InstallEvents(gal)) = 1
    /\ "download" \in gal.net =>
            /\ Len(InstallEvents(gal)) = Len(gal.toInstall)
            /\ \A k \in 2..Len(gal.toInstall) :
                  InstallEvents(gal)[k] = Event("install", LocalIdOf(gal.toInstall[k]), "none",
                                                {"loadCompatibleVersion", "getAllDependencies"})

\* The downloads of a batch with two dependencies were issued.
C7_DependenciesStarted ==
    /\ gal.pc = "download"
    /\ Len(gal.toInstall) = 3
    /\ Len(InstallEvents(gal)) = 3

\* C8: the batch holds the target once, as its first element: no later element
\* has the target's uuid.
C8_TargetOnce ==
    gal.toInstall # <<>> =>
        /\ gal.toInstall[1].name = gal.extension.name
        /\ \A k \in 2..Len(gal.toInstall) : gal.toInstall[k].name # gal.extension.name

\* The registry listed the target in its own dependency closure, with another entry.
C8_SelfReferenceDropped ==
    /\ \E n \in 1..Len(gal.allDeps) : gal.allDeps[n].name = gal.extension.name
    /\ Len(gal.allDeps) = 2
    /\ Len(gal.toInstall) = 2

GalFailedLocal == gal.pc = "rejected" /\ gal.result = "LOCAL"

NoHigherVersion(i) == \A j \in LocalIds : j[1] = i[1] /\ j[2] > i[2] => dirs[j] \notin Readable

TargetIds == {LocalIdOf(gal.extension), LocalIdOf(gal.compat)}

GalFailureReported ==
    gal.pc = "rejected" =>
        /\ gal.result \in {"GALLERY", "OBSOLETE", "LOCAL"}
        /\ \E n \in 1..Len(gal.events) :
              IsDidInstallError(gal.events[n]) /\ gal.events[n].id \in TargetIds

\* C10 as stated: every failed install, local or from the registry, has fired an
\* install-finished event with an error for its target.
C10_EveryFailureReported ==
    /\ GalFailureReported
    /\ loc.pc = "rejected" =>
            \E n \in 1..Len(loc.events) :
                IsDidInstallError(loc.events[n]) /\ loc.events[n].id = loc.id

\* C10 amended: every failed registry install, and every local-package install
\* that fails in its commit phase, is rejected and has fired an install-finished
\* event with an error for its target; a local-package install that fails at
\* manifest validation or at the obsolete check is rejected with no event at all.
C10_FailureReportedOnceStarted ==
    /\ GalFailureReported
    /\ gal.result \notin {"none", "ok"} => gal.pc = "rejected"
    /\ loc.result \notin {"none", "ok"} => loc.pc = "rejected"
    /\ loc.pc = "rejected" =>
            \/ /\ loc.result = "LocalError"
               /\ loc.events = <<Event("install", loc.id, "none", {}),
                                 Event("didInstall", loc.id, "error", {})>>
            \/ /\ loc.result \in {"InvalidManifest", "RestartRequired", "IndexError"}
               /\ loc.events = <<>>

\* A registry install failed at a download, after its dependency's install event.
C10_DownloadFailureReported ==
    /\ gal.pc = "rejected"
    /\ gal.result = "GALLERY"
    /\ Len(gal.toInstall) = 2
    /\ Len(gal.events) = 4

\* The installed extensions, other than the target and outside the batch to
\* remove, that declare the target as a dependency.
BlockingDependents ==
    {e \in un.installed :
        /\ e # un.extension
        /\ e \notin un.dependencies
        /\ getGalleryExtensionIdFromLocal(un.extension) \in un.deps[getGalleryExtensionIdFromLocal(e)]}

\* Nothing was marked obsolete or deleted by the uninstall pipeline: every
\* scanned extension is still on disk and unmarked.
NothingRemoved ==
    /\ un.marked = {} /\ un.fs = {}
    /\ \A i \in un.installed : dirs[i] \in Readable /\ i \notin FileKeys

\* C11 as stated: an uninstall refused for its dependents names every blocking
\* dependent in its message, and removes nothing.
C11_EveryDependentNamed ==
    /\ un.marked # {} => BlockingDependents = {}
    /\ un.result = "DependentsBlock" =>
            /\ NothingRemoved
            /\ \A e \in BlockingDependents :
                    getGalleryExtensionIdFromLocal(e) \in un.message.named

\* C11 amended: an uninstall whose target has an installed dependent outside
\* the batch never starts a removal; it fails with the dependents error, whose
\* message names the dependent when there is one, both when there are two, and
\* the first two in scan order "and others" when there are more; nothing is
\* marked obsolete and no directory is deleted.
C11_DependentsBlock ==
    /\ un.marked # {} => BlockingDependents = {}
    /\ un.result = "DependentsBlock" =>
            LET blocking == InScanOrder(BlockingDependents) IN
            /\ Len(blocking) >= 1
            /\ NothingRemoved
            /\ un.message.extension = getGalleryExtensionIdFromLocal(un.extension)
            /\ un.message.named = {getGalleryExtensionIdFromLocal(blocking[k]) :
                                      k \in {j \in 1..Len(blocking) : j <= 2}}
            /\ un.message.others = (Len(blocking) > 2)

\* The uninstall of a, which b alone depends on, was refused naming b.
C11_RefusedNamingDependent ==
    /\ un.result = "DependentsBlock"
    /\ un.pc = "rejected"
    /\ BlockingDependents = {<<"b", 2>>}
    /\ un.message.named = {"b"}

ForcedUninstallDone == un.pc = "resolved" /\ un.force /\ un.extension # NoLocal

\* The installed extensions the target declares as dependencies.
DirectDependencies ==
    {b \in un.installed \ {un.extension} :
        getGalleryExtensionIdFromLocal(b) \in un.deps[getGalleryExtensionIdFromLocal(un.extension)]}

\* The installed extensions among S that declare b as a dependency.
DependOn(b, S) == {c \in S : getGalleryExtensionIdFromLocal(b) \in un.deps[getGalleryExtensionIdFromLocal(c)]}

InstalledNames == {getGalleryExtensionIdFromLocal(i) : i \in un.installed}

\* The target and the installed extensions reached from it through the
\* dependencies that installed extensions declare.
TargetClosure ==
    LET D == [n \in Names |-> IF n \in InstalledNames THEN un.deps[n] \cap InstalledNames ELSE {}] IN
    {i \in un.installed :
        getGalleryExtensionIdFromLocal(i)
            \in DependencyClosure(D, {getGalleryExtensionIdFromLocal(un.extension)})}

\* C12 as stated: after a forced uninstall of A, a dependency B of A is removed
\* when no installed extension other than A depends on it; when another does, B
\* stays and only A is removed.
C12_ForceAsStated ==
    ForcedUninstallDone =>
        /\ dirs[un.extension] = "absent"
        /\ \A b \in DirectDependencies :
              IF DependOn(b, un.installed \ {un.extension}) = {}
              THEN dirs[b] = "absent"
              ELSE \A i \in un.installed \ {un.extension} : dirs[i] \in Readable

\* C12 amended: after a forced uninstall of A, A is removed; a dependency B of
\* A is removed when every installed extension that depends on it is A or one
\* of A's recursively resolved dependencies, and stays installed when an
\* installed extension outside them depends on it (then only A is removed
\* when B is A's only dependency).
C12_ForceRemovesUnsharedDependencies ==
    ForcedUninstallDone =>
        /\ dirs[un.extension] = "absent"
        /\ \A b \in DirectDependencies :
              IF DependOn(b, un.installed \ TargetClosure) = {}
              THEN dirs[b] = "absent" /\ b \notin FileKeys
              ELSE /\ dirs[b] \in Readable /\ b \notin FileKeys
                   /\ DirectDependencies = {b} /\ un.deps[getGalleryExtensionIdFromLocal(b)] = {}
                        => \A i \in un.installed \ {un.extension} : dirs[i] \in Readable

\* a depends on b and so does c: the forced uninstall of a left b installed.
C12_SharedDependencySurvives ==
    /\ ForcedUninstallDone
    /\ un.deps["a"] = {"b"} /\ "b" \in un.deps["c"]
    /\ dirs[<<"a", 2>>] = "absent"
    /\ dirs[<<"b", 2>>] = "installed"

\* C13: after a successful uninstall, no extension that remains installed
\* declares a dependency on an extension removed as part of the dependency batch.
C13_NoDanglingDependency ==
    un.pc = "resolved" /\ un.extension # NoLocal =>
        \A r \in un.installed \ ({un.extension} \cup un.dependencies) :
            \A x \in un.dependencies :
                dirs[r] \in Readable /\ dirs[x] = "absent" =>
                    getGalleryExtensionIdFromLocal(x) \notin un.deps[getGalleryExtensionIdFromLocal(r)]

FinishedEvents(i) == SelectSeq(un.events[i], LAMBDA e : e.kind = "didUninstall")

\* C14: once uninstall has settled, every extension selected for removal (the
\* target, and each dependency whose doUninstall started) has exactly one
\* uninstall-finished event: without an error when its removal succeeded, with
\* the LOCAL code when any step failed.
C14_AlwaysOneFinishedEvent ==
    un.pc \in {"resolved", "rejected"} =>
        \A i \in LocalIds :
            /\ i = un.extension =>
                  FinishedEvents(i) = <<UninstallEvent("didUninstall",
                                            IF un.pc = "resolved" THEN "none" ELSE "LOCAL")>>
            /\ i # un.extension /\ un.mem[i] # "none" =>
                  FinishedEvents(i) = <<UninstallEvent("didUninstall",
                                            IF un.mem[i] = "done" THEN "none" ELSE "LOCAL")>>

\* The prompt was answered with its cancel option, dismissed, or it rejected.
PromptCanceled ==
    /\ un.answer.given
    /\ \/ un.answer.rejected
       \/ un.answer.value >= (IF hasDependencies(un.extension, un.installed) THEN 2 ELSE 1)

\* C15: when the prompt is cancelled, dismissed or rejects, the uninstall is
\* rejected with the Canceled error, the only event after the uninstall-started
\* event is the target's uninstall-finished event with an error, nothing is
\* marked obsolete and no directory of a scanned extension is deleted.
C15_CancelAborts ==
    /\ PromptCanceled =>
            /\ un.pc = "rejected" /\ un.result = "Canceled"
            /\ NothingRemoved
            /\ \A i \in LocalIds : un.mem[i] = "none"
            /\ un.events[un.extension] = <<UninstallEvent("uninstall", "none"),
                                           UninstallEvent("didUninstall", "LOCAL")>>
            /\ \A i \in LocalIds \ {un.extension} : un.events[i] = <<>>
    /\ un.result = "Canceled" => PromptCanceled

\* The three-option prompt of an extension with dependencies was cancelled.
C15_CancelledWithDependencies ==
    /\ PromptCanceled /\ ~un.answer.rejected
    /\ un.answer.value = 2
    /\ hasDependencies(un.extension, un.installed)
    /\ un.pc = "rejected"

\* Member k of the batch was uninstalled by the rollback and the deletion of
\* its directory failed.
RollbackDeleteFailed(k) ==
    /\ k \in Batch(gal)
    /\ gal.mem[k].pc = "rb_failed"
    /\ <<"rimrafFailed", LocalIdOf(gal.toInstall[k])>> \in gal.fs

\* What holds in every state while identifiers are marked.
MarkedIsHidden ==
    /\ \A k \in Members : RollbackDeleteFailed(k) => LocalIdOf(gal.toInstall[k]) \in FileKeys
    /\ \A r \in Roots :
            gal.pc \in {"getInstalled", "rollbackScan"} /\ gal.scan[r].pc = "done" =>
                gal.scan[r].result \cap FileKeys = {}
    /\ loc.id \in FileKeys =>
            /\ loc.pc \notin InstallPcs \cup {"resolved"} /\ loc.fs = {}
            /\ loc.saw = "marked" => loc.pc = "rejected" /\ loc.result = "RestartRequired"
    /\ gal.pc \in {"download", "install"} => BatchIds(gal) \cap FileKeys = {}
    /\ \A i \in LocalIds : cln.mem[i] = "done" => i \notin FileKeys

\* An entry leaves the index only by the unsetObsolete that follows the deletion
\* of its directory.
ClearedAfterDeletion ==
    \A i \in FileKeys \ FileKeys' :
        /\ dirs[i] = "absent"
        /\ \/ cln.mem[i] = "unset"
           \/ \E k \in Batch(gal) : gal.mem[k].pc = "rb_unset" /\ LocalIdOf(gal.toInstall[k]) = i

\* C16: an identifier whose directory deletion failed in uninstallExtension stays
\* marked; a scan returns no marked identifier, an install whose check reads
\* its identifier as marked fails with RestartRequired and writes nothing, and
\* an entry is cleared only after its directory was deleted.
C16_MarkedUntilCleanup == [](MarkedIsHidden) /\ [][ClearedAfterDeletion]_vars

\* The rollback's deletion of an installed member failed and the registry
\* install ended with the member still marked and on disk.
C16_DeletionFailedStaysMarked ==
    /\ gal.pc = "rejected"
    /\ \E k \in Members : RollbackDeleteFailed(k) /\ LocalIdOf(gal.toInstall[k]) \in FileKeys

\* A scan skipped a readable directory because it is marked.
C16_ScanSkipsMarked ==
    /\ gal.pc = "getInstalled" /\ gal.scan["user"].pc = "done"
    /\ \E i \in FileKeys : dirs[i] \in Readable /\ i \notin gal.scan["user"].result
    /\ gal.scan["user"].result # {}

\* The records scanUserExtensions returns for the folders its scan read.
UserScanRecords == HighestVersions(gal.scan["user"].result)

UserScanDone == gal.pc \in {"getInstalled", "rollbackScan"} /\ gal.scan["user"].pc = "done"

\* The user-root scan returned one record per identifier, the highest version
\* among the folders read, which are readable and not obsolete; with no
\* failed read these are all the readable, non-obsolete directories.
OneRecordPerIdentifier ==
    UserScanDone =>
        /\ \A i, j \in UserScanRecords : i[1] = j[1] => i = j
        /\ \A i \in gal.scan["user"].result :
                \E j \in UserScanRecords : j[1] = i[1] /\ j[2] >= i[2]
        /\ UserScanRecords \subseteq gal.scan["user"].result
        /\ gal.scan["user"].result \subseteq
                {i \in LocalIds : dirs[i] \in Readable /\ i \notin FileKeys}
        /\ faults = 0 => gal.scan["user"].result =
                {i \in LocalIds : dirs[i] \in Readable /\ i \notin FileKeys}

\* A step of a scan changes no directory.
ScanDeletesNothing ==
    (\E r \in Roots : gal.scan[r].pc \in {"index", "readdir"} /\ gal.scan'[r] # gal.scan[r])
        => dirs' = dirs

\* C17: a scan of the user root returns at most one record per identifier, the
\* one of the highest version among the readable, non-obsolete directories, and
\* deletes no directory.
C17_HighestVersionPerIdentifier == [](OneRecordPerIdentifier) /\ [][ScanDeletesNothing]_vars

\* Two versions of b are on disk: the scan returned b.2 only, b.1 is still there.
C17_LowerVersionDropped ==
    /\ UserScanDone
    /\ {<<"b", 1>>, <<"b", 2>>} \subseteq gal.scan["user"].result
    /\ <<"b", 2>> \in UserScanRecords /\ <<"b", 1>> \notin UserScanRecords
    /\ dirs[<<"b", 1>>] \in Readable

\* The records the rollback and the uninstall act on.
OperationTargets == gal.found \cup un.installed \cup un.dependencies \cup un.marked \cup un.fs

C19_OneStartedOneFinished ==
    /\ loc.saw = "unmarked" =>
            /\ loc.zip.valid
            /\ loc.pc \in InstallPcs \cup {"resolved", "rejected"}
            /\ loc.pc \in InstallPcs =>
                    /\ loc.events = <<Event("install", loc.id, "none", {})>>
                    /\ loc.result = "none"
            /\ loc.pc = "rimraf" => loc.fs = {}
            /\ loc.pc = "resolved" =>
                    /\ loc.events = <<Event("install", loc.id, "none", {}),
                                      Event("didInstall", loc.id, "none", {})>>
                    /\ loc.result = "ok"
            /\ loc.pc = "rejected" =>
                    /\ loc.events = <<Event("install", loc.id, "none", {}),
                                      Event("didInstall", loc.id, "error", {})>>
                    /\ loc.result = "LocalError"
    /\ loc.fs # {} \/ loc.events # <<>> => loc.saw = "unmarked"

\* The commit failed after the package was extracted.
C19_CommitFailedReported ==
    /\ loc.saw = "unmarked"
    /\ loc.pc = "rejected" /\ loc.result = "LocalError"
    /\ <<"extract", loc.id>> \in loc.fs
    /\ Len(loc.events) = 2

\* The commit phase of the batch failed.
CommitFailed == \E k \in Batch(gal) : gal.mem[k].pc = "failed"

\* A step of the rollback failed: a scan of filterOutUninstalled's getInstalled,
\* or a member's uninstallExtension.
RollbackFailed ==
    /\ CommitFailed
    /\ \/ \E r \in Roots : gal.scan[r].pc = "failed"
       \/ \E k \in Batch(gal) : gal.mem[k].pc = "rb_failed"

\* The didInstall events fired for identifier i.
DidInstallEvents(i) == SelectSeq(gal.events, LAMBDA e : e.kind = "didInstall" /\ e.id = i)

\* C20: once the commit phase failed and a step of the rollback failed,
\* installFromGallery is rejected with the install error as soon as the
\* rollback has settled, having fired one didInstall event with the LOCAL
\* error code for every entry of the batch; no event is fired before.
C20_RollbackFailureSwallowed ==
    RollbackFailed =>
        /\ gal.pc \in {"rollbackScan", "rollback", "rejected"}
        /\ gal.pc = "rollbackScan" => \E r \in Roots : gal.scan[r].pc \in {"index", "readdir"}
        /\ gal.pc = "rollback" =>
                \E k \in Batch(gal) : gal.mem[k].pc \in {"rb_set", "rb_rimraf", "rb_unset"}
        /\ gal.pc # "rejected" => \A k \in Batch(gal) : DidInstallEvents(LocalIdOf(gal.toInstall[k])) = <<>>
        /\ gal.pc = "rejected" =>
                /\ gal.result = "LOCAL"
                /\ \A k \in Batch(gal) :
                        LET evs == DidInstallEvents(LocalIdOf(gal.toInstall[k])) IN
                        /\ Len(evs) = Cardinality({j \in Batch(gal) : gal.toInstall[j] = gal.toInstall[k]})
                        /\ \A n \in 1..Len(evs) : evs[n].error = "LOCAL"

\* A batch of two failed in its commit phase, the deletion of the installed
\* member failed in the rollback, and the install error was returned.
C20_RollbackDeletionFailed ==
    /\ RollbackFailed
    /\ gal.pc = "rejected" /\ gal.result = "LOCAL"
    /\ Len(gal.toInstall) >= 2
    /\ \E k \in Batch(gal) : RollbackDeleteFailed(k)

\* The steps of installFromGallery that precede the commit phase.
PreCommitPcs == {"loadCompatibleVersion", "getAllDependencies", "getInstalled",
                 "checkForObsolete", "download"}

\* What holds of the directories written by a registry install.
NoWriteBeforeValidated ==
    /\ gal.pc \in PreCommitPcs => gal.fs = {}
    /\ gal.pc = "rejected" /\ gal.result \in {"GALLERY", "OBSOLETE"} => gal.fs = {}
    /\ gal.fs # {} =>
            \A k \in Batch(gal) : gal.mem[k].pc \notin {"none", "download", "validate", "dlfailed"}

\* A step of a registry install that leaves it without a filesystem call of
\* the commit issued changes no directory.
PreCommitKeepsDirectories == gal.pc # "idle" /\ gal'.fs = {} => dirs' = dirs

\* C21: a registry install removes, extracts and writes no directory before
\* every package of the batch was resolved, downloaded and validated; when the
\* resolution, the dependency listing, a download or a validation fails, no
\* directory has changed.
C21_NoMutationBeforeValidated == [](NoWriteBeforeValidated) /\ [][PreCommitKeepsDirectories]_vars

\* One package of a batch of two was downloaded and validated, the other failed:
\* the install is rejected with nothing written.
C21_OneDownloadFailed ==
    /\ gal.pc = "rejected" /\ gal.result = "GALLERY"
    /\ Len(gal.toInstall) = 2
    /\ \E k, j \in Batch(gal) : gal.mem[k].pc = "ready" /\ gal.mem[j].pc = "dlfailed"
    /\ gal.fs = {}

\* C22: the dependency walk ends having expanded each installed extension at
\* most once, and what it returns, without the target, is the set of installed
\* extensions reached from the target through one or more dependencies declared
\* by installed extensions, whatever cycles and self-dependencies there are.
C22_WalkReturnsReachable ==
    un.pc = "walked" =>
        /\ un.dependencies = TargetClosure \ {un.extension}
        /\ getDependenciesToUninstallRecursively(un.extension, un.installed, {}).checked
                \subseteq un.installed

\* The target depends on itself and is on a cycle with b.
C22_CycleAndSelfDependency ==
    /\ un.pc = "walked"
    /\ un.extension = <<"a", 2>>
    /\ un.deps["a"] = {"a", "b"} /\ un.deps["b"] = {"a"}
    /\ un.installed = {<<"a", 2>>, <<"b", 2>>, <<"c", 2>>}
    /\ un.dependencies = {<<"b", 2>>}

\* What the uninstall of the target does, given whether it has an installed
\* declared dependency, force, and the prompt's answer.
ExpectedDecision ==
    LET withDependencies == hasDependencies(un.extension, un.installed) IN
    IF un.force THEN (IF withDependencies THEN "all" ELSE "only")
    ELSE IF un.answer.rejected THEN "rejected"
    ELSE IF un.answer.value = 0 THEN "only"
    ELSE IF withDependencies /\ un.answer.value = 1 THEN "all"
    ELSE "canceled"

\* C23: with force the prompt is never shown and the target is removed with its
\* recursive dependencies when it has installed dependencies, alone when it has
\* none; without force the prompt is shown and option 0 removes the target
\* alone, option 1 of the three-option prompt removes it with its recursive
\* dependencies, and any other answer aborts.
C23_DecisionFunction ==
    /\ un.force => ~un.answer.given /\ un.pc # "prompt"
    /\ un.pc = "prompt" => ~un.force /\ un.choice = "none" /\ ~un.answer.given
    /\ un.choice # "none" =>
            /\ ~un.force => un.answer.given
            /\ un.choice = ExpectedDecision
            /\ un.choice = "only" => un.dependencies = {}
            /\ un.choice = "all" =>
                    un.dependencies =
                        filterDependents(un.extension, TargetClosure \ {un.extension}, un.installed)
            /\ un.choice \in {"canceled", "rejected"} =>
                    un.pc = "rejected" /\ un.result = "Canceled" /\ un.marked = {}
            /\ un.choice \in {"only", "all"} /\ un.result # "DependentsBlock" =>
                    un.extension \in un.marked

\* A forced uninstall of an extension with dependencies went on to remove it
\* with a dependency, no prompt shown.
C23_ForcedWithDependencies ==
    /\ un.force /\ un.choice = "all"
    /\ ~un.answer.given
    /\ un.dependencies # {}
    /\ un.pc = "remove"

\* Where each removal stands: the deletion is issued for a marked identifier
\* only, the unmarking follows a deletion that succeeded, and a completed removal
\* leaves no directory and no entry.
RemovalOrder ==
    /\ \A i \in LocalIds :
        /\ un.mem[i] \in {"exists", "set"} => i \notin un.fs
        /\ un.mem[i] = "rimraf" => i \in un.fs /\ i \in FileKeys
        /\ un.mem[i] = "unset" => i \in un.fs /\ i \in FileKeys /\ dirs[i] = "absent"
        /\ un.mem[i] \in {"report", "done"} => i \in un.fs /\ i \notin FileKeys /\ dirs[i] = "absent"
    /\ un.fs \subseteq un.marked
    /\ \A k \in Batch(gal) :
        LET i == LocalIdOf(gal.toInstall[k]) IN
        /\ gal.mem[k].pc = "rb_rimraf" => i \in FileKeys
        /\ gal.mem[k].pc = "rb_unset" => i \in FileKeys /\ dirs[i] = "absent"
        /\ gal.mem[k].pc = "rb_done" => i \notin FileKeys /\ dirs[i] = "absent"

\* An identifier leaves the index only when its directory is gone.
UnmarkedAfterDeletion == \A i \in FileKeys \ FileKeys' : dirs[i] = "absent"

\* C24: a removal deletes the directory only once the identifier is persisted
\* as obsolete, unmarks it only after the deletion succeeded, and when it has
\* completed the directory is gone and the identifier is not in the index.
C24_MarkDeleteUnmark == [](RemovalOrder) /\ [][UnmarkedAfterDeletion]_vars

\* The target and a dependency were both removed.
C24_TargetAndDependencyRemoved ==
    /\ un.pc = "resolved" /\ un.dependencies # {}
    /\ \A i \in un.dependencies \cup {un.extension} :
            un.mem[i] = "done" /\ dirs[i] = "absent"
    /\ FileKeys = {}

\* The target and the dependencies removed with it.
UninstallBatch == un.dependencies \cup {un.extension}

\* C25: the removals of the target and of every dependency of the batch are
\* all started; the uninstall settles only when each of them has completed or
\* failed, a failed removal leaves the completed ones completed (directory
\* gone, identifier unmarked), and the uninstall is then rejected with the
\* error of the join.
C25_MembersIndependent ==
    /\ un.pc = "remove" =>
            /\ \A i \in UninstallBatch : un.mem[i] # "none"
            /\ \E i \in UninstallBatch : un.mem[i] \in UnPendingPcs
    /\ (\E i \in LocalIds : un.mem[i] = "failed") =>
            /\ un.pc \in {"remove", "rejected"}
            /\ un.pc = "rejected" => un.result = "RemoveError"
    /\ un.result = "RemoveError" =>
            /\ un.pc = "rejected"
            /\ \E i \in UninstallBatch : un.mem[i] = "failed"
            /\ \A i \in UninstallBatch :
                    /\ un.mem[i] \in {"done", "failed"}
                    /\ un.mem[i] = "done" => dirs[i] = "absent" /\ i \notin FileKeys

\* The removal of one member failed and that of another completed.
C25_PartialRemoval ==
    /\ un.result = "RemoveError"
    /\ \E i, j \in UninstallBatch :
            /\ un.mem[i] = "failed" /\ dirs[i] \in Readable
            /\ un.mem[j] = "done" /\ dirs[j] = "absent"

\* What the scans and the folder listing returned holds no identifier that the
\* index listed when they read it.
ScansSkipObsolete ==
    /\ un.pc = "outdatedRemove" => {i \in LocalIds : un.out[i] # "none"} \cap un.obsolete = {}
    /\ un.pc \in {"exists", "resolved"} => un.installed \cap un.obsolete = {}
    /\ \A r \in Roots : gal.scan[r].result \cap gal.scan[r].obsolete = {}

\* What a scan takes as obsolete is what the index holds when its read settles.
ScanReadsIndex ==
    /\ un.pc \in {"outdatedIndex", "scanIndex"} /\ un'.pc \in {"outdatedReaddir", "scanReaddir"}
            => un'.obsolete = FileKeys
    /\ \A r \in Roots : gal.scan[r].pc = "index" /\ gal.scan'[r].pc = "readdir"
            => gal.scan'[r].obsolete = FileKeys

\* C26: no scan returns a directory whose name the index listed when the scan
\* read it: getInstalled, the scan of uninstall, and the folder listing of the
\* outdated-version cleanup.
C26_ObsoleteNeverScanned == [](ScansSkipObsolete) /\ [][ScanReadsIndex]_vars

\* The scan of uninstall left out a directory that is on disk with its manifest
\* and is marked, and returned another one.
C26_MarkedDirectorySkipped ==
    /\ un.pc \in {"exists", "resolved"}
    /\ un.installed # {}
    /\ \E i \in un.obsolete \cap FileKeys : dirs[i] \in Readable /\ i \notin un.installed

\* The folders the outdated-version removal scheduled for deletion.
OutdatedScheduled(u) == {i \in LocalIds : u.out[i] # "none"}

\* The listing schedules, of the directories that are not obsolete, those that
\* have a higher version of the same identifier beside them, and no other.
SchedulesLowerVersions ==
    un.pc = "outdatedReaddir" /\ un'.pc \notin {"outdatedReaddir", "rejected"}
        => LET folders == {i \in LocalIds : dirs[i] # "absent" /\ i \notin un.obsolete} IN
           /\ OutdatedScheduled(un') =
                  {i \in folders : \E j \in folders : j[1] = i[1] /\ j[2] > i[2]}
           /\ \A i \in LocalIds : (\A j \in LocalIds : dirs[j] # "absent" /\ j[1] = i[1] => j[2] <= i[2])
                  => i \notin OutdatedScheduled(un')

\* A step of the removal deletes a scheduled directory only.
DeletesScheduledOnly ==
    un' # un => \A i \in LocalIds : dirs'[i] # dirs[i] => un.out[i] = "rimraf" /\ dirs'[i] = "absent"

\* A deleted name is taken out of the index, and the removal is over with
\* success only when every scheduled directory is deleted and unmarked.
OutdatedRemoved ==
    /\ \A i \in LocalIds : un.out[i] \in {"unset", "done"} => dirs[i] = "absent"
    /\ \A i \in LocalIds : un.out[i] = "done" => i \notin FileKeys
    /\ un.pc \in {"scanIndex", "scanReaddir", "exists", "resolved"}
            => \A i \in OutdatedScheduled(un) : un.out[i] = "done"

ObsoleteScheduled == {i \in LocalIds : cln.mem[i] # "none"}

\* The removal has settled and the deletion of every directory it scheduled
\* succeeded.
ObsoleteDeletionsSucceeded ==
    /\ cln.pc \in {"done", "failed"}
    /\ ObsoleteScheduled # {}
    /\ \A i \in ObsoleteScheduled : cln.mem[i] \in {"done", "unsetFailed"}

\* The removal schedules every identifier the index lists when its read settles.
SchedulesListed ==
    cln.pc = "getObsolete" /\ cln'.pc \in {"remove", "done"}
        => {i \in LocalIds : cln'.mem[i] # "none"} = FileKeys

\* The removal takes an entry out of the index only with its directory deleted.
ClearsAfterDeletion ==
    cln' # cln => \A i \in FileKeys \ ReadObsolete(obsoleteFile') : cln.mem[i] = "unset" /\ dirs[i] = "absent"

ObsoleteRemovalOrder ==
    /\ \A i \in LocalIds : cln.mem[i] \in {"unset", "done", "unsetFailed"} => dirs[i] = "absent"
    /\ \A i \in LocalIds : cln.mem[i] = "done" => i \notin FileKeys

IndexEmptyAfterRemoval ==
    cln.pc = "done" => FileKeys = {} /\ ~obsoleteFile.exists

CleanupWaitsForAll ==
    /\ (\E i \in LocalIds : cln.mem[i] \in {"rimraf", "unset"}) => cln.pc = "remove"
    /\ (\E i \in LocalIds : un.out[i] \in {"rimraf", "unset"}) => un.pc = "outdatedRemove"

\* A step on one scheduled directory leaves the other removals where they are.
RemovalsIndependent ==
    \A i \in LocalIds :
        /\ cln.mem[i] # "none" /\ cln'.mem[i] # cln.mem[i]
                => \A j \in LocalIds \ {i} : cln'.mem[j] = cln.mem[j]
        /\ un.out[i] # "none" /\ un'.out[i] # un.out[i]
                => \A j \in LocalIds \ {i} : un'.out[j] = un.out[j]

\* C29: in both cleanups every scheduled deletion is attempted whatever the others
\* do: a failed deletion stops neither the deletion nor the unmarking of another
\* directory, and the cleanup settles only when every one has completed.
C29_BestEffortPerDirectory == [](CleanupWaitsForAll) /\ [][RemovalsIndependent]_vars

\* The obsolete removal is over and failed: one deletion failed and its entry is
\* still marked, another directory was deleted and unmarked.
C29_OneFailedOneRemoved ==
    /\ cln.pc = "failed"
    /\ \E i, j \in LocalIds :
        /\ cln.mem[i] = "failed" /\ dirs[i] # "absent" /\ i \in FileKeys
        /\ cln.mem[j] = "done" /\ dirs[j] = "absent" /\ j \notin FileKeys

\* The same in the outdated-version removal of an uninstall.
C29_OutdatedOneFailedOneRemoved ==
    /\ un.result = "CleanupError"
    /\ \E i, j \in LocalIds :
        /\ un.out[i] = "failed" /\ dirs[i] # "absent"
        /\ un.out[j] = "done" /\ dirs[j] = "absent"

\* The uninstall events fired for identifier i.
UninstallStarted(u, i) == {k \in 1..Len(u.events[i]) : u.events[i][k].kind = "uninstall"}

\* An uninstall that failed with "Could not find extension" fired no uninstall
\* event for its target, showed no prompt and marked nothing: the one event is
\* the didUninstall of the error handler.
NotFoundIsSilent ==
    un.result = "NotFound"
        => /\ un.pc = "rejected"
           /\ dirs[un.extension] = "absent"
           /\ un.events[un.extension] = <<UninstallEvent("didUninstall", "LOCAL")>>
           /\ un.choice = "none" /\ ~un.answer.given
           /\ un.marked = {}

\* The existence check of a target whose directory is gone ends in NotFound.
MissingIsNotFound ==
    un.pc = "exists" /\ un'.pc # "exists" /\ dirs'[un.extension] = "absent"
        => un'.result = "NotFound"

\* An uninstall event is fired by the step in which pfs.exists of that
\* directory answered true.
FiredAfterExists ==
    \A i \in LocalIds :
        UninstallStarted(un', i) # UninstallStarted(un, i)
            => /\ dirs[i] # "absent" /\ dirs'[i] # "absent"
               /\ \/ un.pc = "exists" /\ i = un.extension
                  \/ un.pc = "remove" /\ un.mem[i] = "exists"

\* C30: uninstalling an extension whose directory is no longer on disk fails with
\* the NotFound error and fires no uninstall-started event for it; that event is
\* fired only once the existence check has passed.
C30_NotFoundBeforeEvent ==
    [](NotFoundIsSilent) /\ [][MissingIsNotFound /\ FiredAfterExists]_vars

\* The scan returned the target, its directory was gone when pfs.exists looked,
\* and the uninstall failed with NotFound.
C30_DirectoryVanished ==
    /\ un.result = "NotFound"
    /\ un.extension \in un.installed
    /\ dirs[un.extension] = "absent"
    /\ UninstallStarted(un, un.extension) = {}

RECURSIVE Concatenated(_, _)
\* The messages of the errors, in order, with the separator between them.
Concatenated(errors, separator) ==
    IF Len(errors) = 1 THEN errors[1].message
    ELSE errors[1].message \o separator \o Concatenated(Tail(errors), separator)

RECURSIVE FromFirstMessage(_)
\* The errors from the first one whose message is not empty.
FromFirstMessage(errors) ==
    IF errors = <<>> \/ Head(errors).message # <<>> THEN errors
    ELSE FromFirstMessage(Tail(errors))

\* The statement as written: two or more messages are joined with a comma and a
\* space.
C31_JoinedWithCommaSpace ==
    un.pc = "rejected" /\ Len(un.errors) >= 2
        => un.error.message = Concatenated(un.errors, <<",", " ">>)

\* C31: joinErrors of two or more errors returns one error whose message is the
\* members' messages in order, joined with a comma (no space), the members with
\* an empty message at the head of the list left out; of a single error it
\* returns that error unchanged (a single string becomes an Error of it).
C31_JoinedWithComma ==
    un.pc = "rejected"
        => IF Len(un.errors) = 1
           THEN IF un.errors[1].kind = "Error" THEN un.error = un.errors[1]
                ELSE un.error = NewError(un.errors[1].message)
           ELSE LET rest == FromFirstMessage(un.errors) IN
                /\ un.error.kind = "Error" /\ un.error.code = "none"
                /\ un.error.message = IF rest = <<>> THEN <<>> ELSE Concatenated(rest, <<",">>)

\* Three errors with messages x, empty and y were joined into "x,,y".
C31_ThreeErrorsJoined ==
    /\ un.pc = "rejected"
    /\ Len(un.errors) = 3
    /\ un.errors[1].message = <<"x">> /\ un.errors[2].message = <<>> /\ un.errors[3].message = <<"y">>
    /\ un.error.message = <<"x", ",", ",", "y">>

\* An installed extension that is neither the target nor in the list depends on d.
HasOutsideDependent(d) ==
    \E e \in un.installed :
        /\ e # un.extension
        /\ \A k \in 1..Len(un.dependencies) : un.dependencies[k] # e
        /\ getGalleryExtensionIdFromLocal(d) \in un.deps[getGalleryExtensionIdFromLocal(e)]

\* C32: filterDependents, which splices its result in place with a compensated
\* index, returns the members of the candidate list, in their order, that have
\* no dependent among the installed extensions other than the target and the
\* members of the list.
C32_SpliceIsFilter ==
    un.pc = "filtered"
        => /\ un.result = SelectSeq(un.dependencies, LAMBDA d : ~HasOutsideDependent(d))
           /\ {un.result[k] : k \in 1..Len(un.result)}
                = filterDependents(un.extension,
                                   {un.dependencies[k] : k \in 1..Len(un.dependencies)},
                                   un.installed)

\* Of three candidates the first and the last were spliced out, the second kept.
C32_FirstAndLastSpliced ==
    /\ un.pc = "filtered"
    /\ Len(un.dependencies) = 3
    /\ Cardinality({un.dependencies[k] : k \in 1..3}) = 3
    /\ un.result = <<un.dependencies[2]>>

\* The batch is computed and the install has not yet scanned again for a rollback.
BatchComputed == gal.pc \in {"checkForObsolete", "download", "install"}

\* The dependencies of the batch: its entries after the target.
BatchDependencies == {k \in 1..Len(gal.toInstall) : k > 1}

\* The batch is the compatible target followed by the entries of the closure,
\* in order, that are neither the target nor in what getInstalled returned.
BatchIsNewDependencies ==
    BatchComputed =>
        /\ gal.toInstall[1] = gal.compat
        /\ Tail(gal.toInstall) =
              SelectSeq(gal.allDeps,
                        LAMBDA d : d.name # gal.extension.name /\ LocalIdOf(d) \notin Installed(gal.scan))
        /\ \A k \in BatchDependencies :
              /\ gal.toInstall[k].name # gal.extension.name
              /\ LocalIdOf(gal.toInstall[k]) \notin Installed(gal.scan)
        /\ faults = 0 /\ gal.pc # "install"
              => \A k \in BatchDependencies :
                    LET i == LocalIdOf(gal.toInstall[k]) IN
                    dirs[i] \notin Readable \/ i \in gal.scan["user"].obsolete

\* Nothing is downloaded or written for an entry of the closure outside the batch.
OnlyBatchInstalled ==
    /\ \A k \in Members : gal.mem[k].pc # "none" => k <= Len(gal.toInstall)
    /\ \A w \in gal.fs : w[2] \in BatchIds(gal)
    /\ BatchComputed =>
          \A w \in gal.fs : w[2] = LocalIdOf(gal.compat) \/ w[2] \notin Installed(gal.scan)

\* C33: in a registry install the extensions to install are the target followed
\* by exactly the entries of the dependency closure that are neither the target
\* nor already installed; an installed dependency is not downloaded or installed
\* again.
C33_InstalledDependenciesSkipped == BatchIsNewDependencies /\ OnlyBatchInstalled

\* The closure listed b.1, which is installed, and c.1, which is not: the batch
\* was the target and c.1, and the install succeeded without touching b.1.
C33_InstalledDependencyLeftOut ==
    /\ gal.pc = "resolved"
    /\ gal.allDeps = <<GalleryExtension("b", 1), GalleryExtension("c", 1)>>
    /\ gal.toInstall = <<gal.compat, GalleryExtension("c", 1)>>
    /\ dirs[<<"b", 1>>] = "installed"
    /\ \A w \in gal.fs : w[2] # <<"b", 1>>

\* In every prefix of the events of i there are at least as many uninstall
\* events as didUninstall events: each finished event has a started event of
\* its own before it.
StartedBeforeFinished(i) ==
    \A n \in 1..Len(un.events[i]) :
        Cardinality({k \in 1..n : un.events[i][k].kind = "didUninstall"})
            <= Cardinality({k \in 1..n : un.events[i][k].kind = "uninstall"})

\* The existence check of i failed: its one event is the didUninstall of the
\* error handler.
NotFoundFinishedOnly(i) ==
    /\ un.events[i] = <<UninstallEvent("didUninstall", "LOCAL")>>
    /\ dirs[i] = "absent"
    /\ \/ i = un.extension /\ un.result = "NotFound"
       \/ i # un.extension /\ un.mem[i] = "failed"

\* The statement as written: every uninstall-finished event has an unmatched
\* uninstall-started event of the same identifier before it.
C34_FinishedAfterStarted == \A i \in LocalIds : StartedBeforeFinished(i)

\* C34: each uninstall-finished event of an identifier, target or dependency, is
\* preceded by an uninstall-started event of that identifier not matched by an
\* earlier finished event, except when the existence check found its directory
\* missing: then the finished event, with the error, is its only event.
C34_FinishedAfterStartedUnlessNotFound ==
    \A i \in LocalIds : StartedBeforeFinished(i) \/ NotFoundFinishedOnly(i)

\* The removal of a dependency completed and the target's failed: each has its
\* started event followed by its finished event.
C34_TargetAndDependencyFinished ==
    /\ un.pc = "rejected"
    /\ un.extension \in LocalIds
    /\ un.events[un.extension] = <<UninstallEvent("uninstall", "none"),
                                   UninstallEvent("didUninstall", "LOCAL")>>
    /\ \E d \in un.dependencies :
            un.events[d] = <<UninstallEvent("uninstall", "none"),
                             UninstallEvent("didUninstall", "none")>>

\* The install events (kind "install") and the didInstall events with id x among
\* the first n events of the registry install.
InstallEventsOf(kind, x, n) == {k \in 1..n : gal.events[k].kind = kind /\ gal.events[k].id = x}

\* C35: in a registry install every install-started event of an identifier is
\* followed, once the install has settled, by exactly one install-finished event
\* of the same identifier, and no install-finished event comes without an
\* install-started event of its identifier before it, whatever version the
\* registry resolves as compatible.
C35_StartedMatchesFinished ==
    /\ \A x \in LocalIds, n \in 1..Len(gal.events) :
          Cardinality(InstallEventsOf("didInstall", x, n)) <= Cardinality(InstallEventsOf("install", x, n))
    /\ gal.pc \in {"resolved", "rejected"} =>
          \A x \in LocalIds :
              Cardinality(InstallEventsOf("install", x, Len(gal.events)))
                  = Cardinality(InstallEventsOf("didInstall", x, Len(gal.events)))

\* C36: the uninstall-finished event of the target tells the outcome of the
\* target's own removal: when its mark, delete and unmark steps all succeeded the
\* event carries no error, whatever became of the dependencies removed with it.
C36_TargetEventIsOwnOutcome ==
    un.extension \in LocalIds /\ un.mem[un.extension] = "done"
        => \A k \in 1..Len(un.events[un.extension]) :
              un.events[un.extension][k].kind = "didUninstall"
                  => un.events[un.extension][k].error = "none"

\* The step fires the didInstall event of a successful local-package install.
InstallReportsSuccess ==
    /\ Len(loc'.events) = Len(loc.events) + 1
    /\ loc'.events[Len(loc'.events)].kind = "didInstall"
    /\ loc'.events[Len(loc'.events)].error = "none"

\* C37: in every interleaving of an install and an uninstall of one identifier,
\* when an install-finished event reports success the directory of the identifier
\* is on disk and the identifier is not marked in the index.
C37_SuccessMeansInstalled ==
    [][InstallReportsSuccess
          => dirs'[loc.id] \in Readable /\ loc.id \notin ReadObsolete(obsoleteFile')]_vars

\* The file holds content that JSON.parse rejects.
IndexCorrupt == obsoleteFile.exists /\ ~obsoleteFile.valid

\* An access that reads unparsable content goes on with the empty mapping: a
\* query finds nothing obsolete, a mark leaves its identifier alone in it.
CorruptReadsEmpty ==
    \A a \in AccIds :
        IndexCorrupt /\ lim.acc[a].pc = "read" /\ lim'.acc[a].pc = "persist"
            => /\ lim'.acc[a].res = {}
               /\ lim'.acc[a].obs = IF lim.acc[a].kind = "set" THEN lim.acc[a].ids ELSE {}

\* Caller c's access settles in this step.
SettlesNow(c) == clients[c].pc = "wait" /\ clients'[c].pc = "idle"

\* A successful access over unparsable content leaves no file, or a file with
\* the entries it added and no other.
CorruptReplaced ==
    \A c \in Clients :
        IndexCorrupt /\ SettlesNow(c) /\ clients'[c].ok
            => obsoleteFile' = IF clients[c].kind = "set" THEN JSONStringify({ClientId(c)})
                               ELSE NoFile

\* Unparsable content alone fails no access: an access fails by a failed
\* filesystem call only.
FailsByFaultOnly ==
    \A c \in Clients : SettlesNow(c) /\ ~clients'[c].ok => faults' = faults + 1

\* A failed access failed at its read, and the file is as it was.
FailsAtReadOnly ==
    \A c \in Clients :
        SettlesNow(c) /\ ~clients'[c].ok
            => lim.acc[ClientAcc(c)].pc = "read" /\ obsoleteFile' = obsoleteFile

\* A failed access failed at its read or at its write or removal; after a failed
\* read the file is as it was.
FailsAtReadOrPersist ==
    \A c \in Clients :
        SettlesNow(c) /\ ~clients'[c].ok
            => /\ lim.acc[ClientAcc(c)].pc \in {"read", "persist"}
               /\ lim.acc[ClientAcc(c)].pc = "read" => obsoleteFile' = obsoleteFile

\* The statement as written: only a failed read fails an access.
C38_OnlyReadFailureFails ==
    [][CorruptReadsEmpty /\ CorruptReplaced /\ FailsByFaultOnly /\ FailsAtReadOnly]_vars

\* C38: an index file that is not valid JSON is read by every access as the empty
\* mapping, with no error: queries find no identifier obsolete, and after the
\* access the file is absent or holds only the entries the access added; an
\* access fails only by a failed read other than file-not-found or a failed
\* write or removal of the file, and a failed read leaves the file untouched.
C38_CorruptIndexReadsEmpty ==
    [][CorruptReadsEmpty /\ CorruptReplaced /\ FailsByFaultOnly /\ FailsAtReadOrPersist]_vars

\* A mark has read the unparsable file and is about to write its identifier as
\* the only entry, with another access waiting behind it.
C38_MarkOverCorruptFile ==
    /\ IndexCorrupt
    /\ lim.outstanding # <<>>
    /\ \E c \in Clients :
        /\ lim.acc[ClientAcc(c)].pc = "persist"
        /\ lim.acc[ClientAcc(c)].kind = "set"
        /\ lim.acc[ClientAcc(c)].obs = {ClientId(c)}

\* A queued access is started before anything else happens to it.
QueuedThenStarted ==
    \A a \in AccIds : lim.acc[a].pc = "queued" => lim'.acc[a].pc \in {"queued", "read"}

\* C39: when every filesystem call eventually completes, every access queued on
\* the index eventually starts and eventually completes, resolved or rejected,
\* also behind an access that failed: installs, uninstalls, scans and cleanups
\* never wait on the index for ever.
C39_EveryAccessCompletes ==
    /\ (Pending(lim) # {}) ~> (Pending(lim) = {})
    /\ [][QueuedThenStarted]_vars

\* The obsolete check of an install failed, and the cleanup and the uninstall
\* whose accesses shared the queue with it completed with no access left.
C39_CompletedDespiteFailure ==
    /\ loc.saw = "failed"
    /\ cln.pc = "done"
    /\ un.pc = "resolved" /\ un.result = "ok" /\ un.extension \in LocalIds
    /\ Pending(lim) = {}
    /\ maxPending >= 0

\* The resource is the folder or lies under it.
InsideFolder(resource, folder) ==
    \/ resource = folder
    \/ /\ Len(resource) > Len(folder)
       /\ SubSeq(resource, 1, Len(folder) + 1) = folder \o <<Sep>>

\* The watcher is to fire for the resource: the flag of the kind was not set
\* at creation, the resource is in the folder if one was given, and the path
\* matches the pattern.
ShouldFire(w, flag, resource) ==
    /\ ~flag
    /\ w.folder # NoFolder => InsideFolder(resource, w.folder)
    /\ GlobMatch(w.globPattern, resource)

\* For the last batch the watcher fired exactly the resources it is to fire,
\* once for each occurrence and in the order of the batch.
FiresIff(w) ==
    /\ w.fired.created
         = SelectSeq(un.events.created, LAMBDA r : ShouldFire(w, w.ignoreCreateEvents, r))
    /\ w.fired.changed
         = SelectSeq(un.events.changed, LAMBDA r : ShouldFire(w, w.ignoreChangeEvents, r))
    /\ w.fired.deleted
         = SelectSeq(un.events.deleted, LAMBDA r : ShouldFire(w, w.ignoreDeleteEvents, r))

\* Nothing of an ignored kind was fired.
NeverFiresIgnored(w) ==
    /\ w.ignoreCreateEvents => w.fired.created = <<>>
    /\ w.ignoreChangeEvents => w.fired.changed = <<>>
    /\ w.ignoreDeleteEvents => w.fired.deleted = <<>>

\* The getters return the flags of the creation.
GettersReturnFlags(w) ==
    /\ ignoreCreateEvents(w) = w.ignoreCreateEvents
    /\ ignoreChangeEvents(w) = w.ignoreChangeEvents
    /\ ignoreDeleteEvents(w) = w.ignoreDeleteEvents

====
